---- MODULE Spec2Model ----
(***************************************************************************)
(* Verification model of the WebInject dataset pipeline:                   *)
(*   - the phase state store   (Dataset/pipeline_state.py)                 *)
(*   - the pipeline driver     (Dataset/main.py)                           *)
(*   - the download scheduler  (Dataset/crawler.py, run_crawler)           *)
(* Three specifications share one set of variables:                        *)
(*   Spec         the driver, run after run, with failing phase bodies,    *)
(*                configuration edits and reset_state between runs;        *)
(*   SpecStore    the state store driven call by call, with the process    *)
(*                killed at any instant, also in the middle of a write;    *)
(*   SpecCrawler  one call of run_crawler with its thread pool.            *)
(* SpecRun is run_crawler with its searches and the browser session they   *)
(* share, SpecGate one call of _wait_for_captcha.                          *)
(* The training runner (Training/train.py and its deployed copy            *)
(* deploy/webinject_train/train.py) is the fourth component: SpecTrain is  *)
(* the runner of one monitor, killed and started again at any instant.     *)
(* SpecEquiv runs the two implementations of the runner on the same        *)
(* inputs, SpecLoaded is the state store over any parsable state file,     *)
(* SpecRender is phase4_render (Dataset/main.py) called run after run, and *)
(* SpecReuse is run_crawler run after run over one output directory.       *)
(***************************************************************************)
EXTENDS Integers, Sequences, FiniteSets, TLC

VARIABLES
    \* ---- durable storage and the process (store and driver)
    file,         \* content of PIPELINE_STATE_FILE
    mem,          \* the state dict held by the running process
    pc,           \* where the process is
    ph,           \* driver: index in PHASES of the next phase function to call
    exitCode,     \* driver: exit status of the last process, -1 while none
    runCrawler,   \* config.RUN_CRAWLER
    runSynthGen,  \* config.RUN_SYNTH_GEN
    \* ---- driver, history of the current run
    execSeq,      \* phase bodies invoked, in order
    failed,       \* the phase whose body raised, "none" otherwise
    loadedC,      \* the completed set load_state returned at the start
    writes,       \* number of times the state file was written
    markedRun,    \* phases given to mark_completed
    skipRun,      \* phases marked through the disabled branch
    skippedEver,  \* phases marked through the disabled branch since the last reset
    \* ---- driver, history of the run before and of the gap between the two
    hadPrev, prevExec, prevFailed, prevAllDone, resetBetween, flipBetween,
    \* ---- store, history
    returned,     \* phases for which mark_completed has returned since the last reset
    wPre,         \* what load_state returned on the file as it was before the last write began
    wNew,         \* the state the last write was writing
    wPhase,       \* the phase the last write was marking
    crashW,       \* the process was killed inside the last write and nothing was written since
    tornSince,    \* some write was cut by a kill since the last reset
    durableHigh,  \* every phase some complete state file has held since the last reset
    memHigh,      \* every phase the state dict of the live process has held
    lastLoad,     \* kind of the file at the last load_state and whether it raised
    lastMark,     \* what the last mark_completed call found and left in the list
    \* ---- run_crawler: inputs of the call
    cW,           \* config.CONCURRENT_DOWNLOADS
    cRetries,     \* config.MAX_RETRIES
    posix,        \* FALSE on Windows (_IS_WINDOWS), TRUE on Linux and macOS
    killTime,     \* seconds the taskkill command takes in this run
    reapTime,     \* seconds the wait for a killed process takes in this run
    trace,        \* whether a call of download_page records modes and el
    urlCount,     \* per category, the number of URLs _get_target_urls returns
    onDisk,       \* keys <<category, index>> whose output file was there with more
                  \* than 100 bytes when the run began, or was downloaded by it
    \* ---- run_crawler: the main thread
    cpc,          \* "start", "pool" (inside the with block), "returned",
                  \* "killed" (the process got SIGKILL)
    tasks,        \* the list tasks, as keys
    skipped,      \* the counter skipped
    completedCnt, \* the counter completed
    stats,        \* stats[category] = {"success": n, "fail": n}
    progress,     \* the k of every "k/pending" line printed
    counted,      \* per task, the number of times its outcome was added to stats
    \* ---- run_crawler: the thread pool
    queue,        \* work items submitted and not yet taken, in submission order
    worker,       \* per pool thread: the task it runs (0: none), where download_page
                  \* is, the attempt, and what this call of download_page did so far
    fut,          \* per task, its future: "pending", "running", "ok", "fail", "exc"
    yielded,      \* the futures as_completed has handed to the loop
    \* ---- _wait_for_captcha: one call
    gpc,          \* "off", "first" (line 184), "loop" (line 194), "sleep" (line 201), "done"
    gArg,         \* the timeout argument: given or None, and its value
    gPlan,        \* what check_fn will return: anything, or True at the first n
                  \* evaluations of the loop condition and False afterwards
    gElapsed,     \* seconds since start (line 193) on the clock the code reads
    gSlept,       \* seconds spent in time.sleep
    gEvals,       \* evaluations of check_fn so far
    gFirst,       \* what the first evaluation returned: "none" yet, "true", "false"
    gSawFalse,    \* an evaluation of check_fn returned False
    gRes,         \* the value returned: "none" yet, "true", "false"
    \* ---- the training runner of one monitor, and the checkpoint directory
    tpc,          \* "off", "start", "enter", "loop", "open", "write", "replace",
                  \* "saved", "done", "raised", "loaded", "crashed"
    numEpochs,    \* TRAIN_CONFIG["NUM_EPOCHS"]
    saveInterval, \* TRAIN_CONFIG["SAVE_INTERVAL"]
    ckFiles,      \* content of every path of the checkpoint directory
    net,          \* state of the live model, optimizer and scheduler
    start_epoch,  \* the variable start_epoch
    epoch,        \* the loop variable epoch
    saveTo,       \* the path argument of the save_checkpoint call in progress
    \* ---- the training runner, history of the current process
    executed,     \* units (epochs) whose training ran, in order
    loaded,       \* the path load_checkpoint read, the epoch it returned and the
                  \* state it left in the model, the optimizer and the scheduler
    canonWrites,  \* unit indices put at the canonical path by os.replace, in order
    copyWrites,   \* numbered copies put in place by os.replace, in order
    entryTarget,  \* content of the target path when torch.save began
    filesAtStart, \* ckFiles when the process started
    crashAt,      \* where the process was when it was killed
    doneBefore,   \* an earlier process of the runner reported the job done
    \* ---- the two implementations of the training runner, one after the other
    qpc,          \* "off", "function" (train_one_monitor runs), "class"
                  \* (Trainer(...).train() runs), "done"
    qIn,          \* the canonical checkpoint found, NUM_EPOCHS, SAVE_INTERVAL and
                  \* whether the LMDB is there and has samples
    qA,           \* train_one_monitor: where it is, start_epoch, epoch, the
                  \* units executed and the checkpoints written, in order
    qB,           \* the same for Trainer.__init__ and Trainer.train
    \* ---- phase4_render, call after call
    rpc,          \* "off", "call", "list", "sim", "loop", "close", "mark",
                  \* "returned", "raised"
    rHtml,        \* number of HTML files list_html_files returns
    rDisk,        \* per (page, monitor): no image, the ICC image only, or both
    rIdx,         \* position of the two loops in the list of pairs
    rPaths,       \* len(screenshot_paths)
    rRendered,    \* pairs rendered by this call
    rFailed,      \* pairs whose render raised, in any call
    rSimFailed,   \* MonitorSimulator() raised
    rCall,        \* number of the call
    rRetried,     \* pairs that had failed and were given to render again
    rRecorded,    \* the icc_count stored in phase_data, -1 when there is none
    \* ---- run_crawler, run after run over the same output directory
    upc,          \* "off", "collect", "pool", "returned", "killed"
    uRun,         \* number of the run
    uPosix,       \* FALSE on Windows, TRUE on Linux and macOS
    uUrls,        \* the URLs _get_target_urls returned to this run, in order
    uPrev,        \* the URLs it returned to the run before
    uSame,        \* every run so far was given the same URLs in the same order
    uIdx,         \* position of the collection loop, then of the downloads
    uAttempt,     \* attempt of download_page for the task at uIdx
    uTasks,       \* the keys of tasks, in order
    uMap,         \* the dict url_mapping
    uMapFile,     \* content of URL_MAPPING_FILE
    uDisk,        \* per output path: the file, the URL given to the process
                  \* that wrote it and whether that process exited with code 0
    uSkipped,     \* keys this run skipped as already there
    uOk,          \* keys whose download_page returned True in this run
    uWrote,       \* keys this run put into url_mapping
    \* ---- run_crawler: the searches of the collection loop and their browser
    engine,       \* config.SEARCH_ENGINE.lower()
    browser,      \* an Edge or Chrome binary is installed and can be started
    search_driver,\* the global _search_driver: "none", "alive", or "dead" (a
                  \* WebDriver object whose browser session is gone)
    sCat,         \* index in Cats of the category being collected
    sQuery,       \* index of the next query of that category
    sUrls,        \* len(urls) in _get_target_urls
    sCount,       \* per category, the searches made
    sCreated,     \* browser sessions started
    sQuits,       \* sessions torn down by _close_search_driver
    sAbandoned,   \* searches abandoned at the gate
    sIn,          \* a search function is running
    sUsers,       \* the threads inside a call that uses _search_driver
    sLast         \* the last search: its category and query, what
                  \* _get_search_driver found and did, and how the search ended

storeVars  == <<file, mem, pc>>
driverVars == <<ph, exitCode, runCrawler, runSynthGen, execSeq, failed, loadedC,
                writes, markedRun, skipRun, skippedEver, hadPrev, prevExec,
                prevFailed, prevAllDone, resetBetween, flipBetween>>
histVars   == <<returned, wPre, wNew, wPhase, crashW, tornSince, durableHigh,
                memHigh, lastLoad, lastMark>>
crawlerVars == <<cW, cRetries, posix, killTime, reapTime, trace, urlCount, onDisk, cpc, tasks, skipped, completedCnt, stats,
                 progress, counted, queue, worker, fut, yielded>>
gateVars == <<gpc, gArg, gPlan, gElapsed, gSlept, gEvals, gFirst, gSawFalse, gRes>>
trainVars == <<tpc, numEpochs, saveInterval, ckFiles, net, start_epoch, epoch,
               saveTo, executed, loaded, canonWrites, copyWrites, entryTarget,
               filesAtStart, crashAt, doneBefore>>
searchVars == <<engine, browser, search_driver, sCat, sQuery, sUrls, sCount,
                sCreated, sQuits, sAbandoned, sIn, sUsers, sLast>>
equivVars == <<qpc, qIn, qA, qB>>
renderVars == <<rpc, rHtml, rDisk, rIdx, rPaths, rRendered, rFailed, rSimFailed,
                rCall, rRetried, rRecorded>>
reuseVars == <<upc, uRun, uPosix, uUrls, uPrev, uSame, uIdx, uAttempt, uTasks,
               uMap, uMapFile, uDisk, uSkipped, uOk, uWrote>>
laterVars == <<equivVars, renderVars, reuseVars>>
vars == <<storeVars, driverVars, histVars, crawlerVars, gateVars, trainVars,
          searchVars, laterVars>>

\* What the actions of one component leave alone.
nonDriverVars  == <<histVars, crawlerVars, gateVars, trainVars, searchVars,
                    laterVars>>
nonStoreVars   == <<driverVars, crawlerVars, gateVars, trainVars, searchVars,
                    laterVars>>
nonRunVars     == <<storeVars, driverVars, histVars, gateVars, trainVars,
                    laterVars>>
nonCrawlerVars == <<nonRunVars, searchVars>>
nonGateVars    == <<storeVars, driverVars, histVars, crawlerVars, trainVars,
                    searchVars, laterVars>>
nonTrainVars   == <<storeVars, driverVars, histVars, crawlerVars, gateVars,
                    searchVars, laterVars>>
earlierVars    == <<storeVars, driverVars, histVars, crawlerVars, gateVars,
                    trainVars, searchVars>>

----------------------------------------------------------------------------
(* pipeline_state.py                                                       *)

PHASES == << "phase0_crawl", "phase1_synth", "phase2_prompts",
             "phase3_history", "phase4_render", "phase5_metadata" >>

Range(s) == {s[i] : i \in 1..Len(s)}

PhaseSet == Range(PHASES)

\* The phases of S as a list in the order of PHASES.
ListOf(S) == SelectSeq(PHASES, LAMBDA p : p \in S)

\* phase_data payloads: "none" (no entry), "skipped" ({"skipped": True}),
\* "result" (the summary a phase body produced).
NoData == [p \in PhaseSet |-> "none"]

\* A state dict. hasCP / hasPD: the keys "completed_phases" / "phase_data" exist.
EmptyState == [hasCP |-> TRUE, hasPD |-> TRUE, cp |-> <<>>, pd |-> NoData]

\* No dict at all (no process, or a file that holds none).
NoState == [hasCP |-> FALSE, hasPD |-> FALSE, cp |-> <<>>, pd |-> NoData]

FullState(S) == [hasCP |-> TRUE, hasPD |-> TRUE, cp |-> ListOf(S),
                 pd |-> [p \in PhaseSet |-> IF p \in S THEN "result" ELSE "none"]]

\* File contents: "absent"; "object" (a JSON object, st); "nonobject" (valid JSON
\* that is a list, a number, ...); "garbage" (text that is not JSON: an empty or
\* cut file); "binary" (bytes that are not UTF-8).
AbsentFile == [kind |-> "absent", st |-> NoState]
GarbageFile == [kind |-> "garbage", st |-> NoState]
BinaryFile == [kind |-> "binary", st |-> NoState]
NonObjectFile == [kind |-> "nonobject", st |-> NoState]
ObjectFile(st) == [kind |-> "object", st |-> st]

\* load_state: the value returned, or raises = TRUE when an exception leaves it.
\*   absent     os.path.exists is false: the empty state
\*   garbage    json.JSONDecodeError, caught: the empty state
\*   binary     UnicodeDecodeError, a ValueError that is neither JSONDecodeError
\*              nor IOError: not caught
\*   nonobject  state.get raises AttributeError: not caught
\*   object     the parsed object as it is
LoadState(f) ==
    CASE f.kind = "absent"    -> [raises |-> FALSE, st |-> EmptyState]
      [] f.kind = "garbage"   -> [raises |-> FALSE, st |-> EmptyState]
      [] f.kind = "binary"    -> [raises |-> TRUE,  st |-> NoState]
      [] f.kind = "nonobject" -> [raises |-> TRUE,  st |-> NoState]
      [] OTHER                -> [raises |-> FALSE, st |-> f.st]

\* is_completed: phase_name in state.get("completed_phases", [])
IsCompleted(st, p) == st.hasCP /\ p \in Range(st.cp)

Completed(st) == {p \in PhaseSet : IsCompleted(st, p)}

\* A mark_completed that stores the payload and forgets to add the phase to the list.
MarkMem_ForgetsPhase(st, p, d) ==
    IF ~st.hasCP THEN [raises |-> TRUE, st |-> st]
    ELSE IF d = "none" THEN [raises |-> FALSE, st |-> st]
    ELSE IF ~st.hasPD THEN [raises |-> TRUE, st |-> st]
    ELSE [raises |-> FALSE, st |-> [st EXCEPT !.pd[p] = d]]

\* A mark_completed that appends the phase without looking whether it is there.
MarkMem_AlwaysAppends(st, p, d) ==
    IF ~st.hasCP THEN [raises |-> TRUE, st |-> st]
    ELSE LET a == [st EXCEPT !.cp = Append(@, p)]
         IN  IF d = "none" THEN [raises |-> FALSE, st |-> a]
             ELSE IF ~a.hasPD THEN [raises |-> TRUE, st |-> a]
             ELSE [raises |-> FALSE, st |-> [a EXCEPT !.pd[p] = d]]

\* mark_completed up to the call of save_state: the dict after lines 65-68, or
\* raises = TRUE with the dict as the KeyError left it.
MarkMem(st, p, d) ==
    IF ~st.hasCP THEN [raises |-> TRUE, st |-> st]
    ELSE LET a == IF p \in Range(st.cp) THEN st
                  ELSE [st EXCEPT !.cp = Append(@, p)]
         IN  IF d = "none" THEN [raises |-> FALSE, st |-> a]
             ELSE IF ~a.hasPD THEN [raises |-> TRUE, st |-> a]
             ELSE [raises |-> FALSE, st |-> [a EXCEPT !.pd[p] = d]]

\* save_state, first half: open(..., "w") has truncated the file and json.dump
\* has written some prefix of the text.
TornFile == GarbageFile

\* save_state, completed: the file holds the whole dict.
SaveState(st) == ObjectFile(st)

\* mark_completed as one call that is not interrupted.
MarkCompleted(st, p, d) ==
    LET m == MarkMem(st, p, d)
    IN  [raises |-> m.raises, st |-> m.st,
         file |-> IF m.raises THEN file ELSE SaveState(m.st)]

----------------------------------------------------------------------------
(* main.py: the driver, run after run                                      *)

\* The configuration switch of a phase: RUN_CRAWLER for phase0_crawl,
\* RUN_SYNTH_GEN for phase1_synth; the other phases have none.
PhaseEnabled(p) ==
    CASE p = "phase0_crawl" -> runCrawler
      [] p = "phase1_synth" -> runSynthGen
      [] OTHER              -> TRUE

\* A main that calls phase3_history before phase2_prompts.
MainCalls_Swapped == << "phase0_crawl", "phase1_synth", "phase3_history",
                        "phase2_prompts", "phase4_render", "phase5_metadata" >>

\* main, lines 340-345: the six phase functions in the order main calls them.
MainCalls == << "phase0_crawl", "phase1_synth", "phase2_prompts",
                "phase3_history", "phase4_render", "phase5_metadata" >>

\* The state files a driver run can find: none, one cut by a kill, or a complete
\* one with any set of phases marked.
DriverFiles ==
    {AbsentFile, GarbageFile} \cup {ObjectFile(FullState(S)) : S \in SUBSET PhaseSet}

HistIdle ==
    /\ returned = {} /\ wPre = EmptyState /\ wNew = EmptyState /\ wPhase = "none"
    /\ crashW = FALSE /\ tornSince = FALSE /\ durableHigh = {} /\ memHigh = {}
    /\ lastLoad = [kind |-> "none", raised |-> FALSE, empty |-> FALSE]
    /\ lastMark = [phase |-> "none", present |-> FALSE]

\* State of the crawler (crawler.py), declared here because every
\* specification of the module gives it an initial value.
MAX_RETRIES == 2

\* The largest number of URLs the searches return in all, and the largest
\* CONCURRENT_DOWNLOADS.
MaxTasks == 3
MaxW == 2

\* The categories of the call (the first two of config.DOMAINS).
Cats == << "Blog", "Commerce" >>

CatSet == Range(Cats)

TaskIds == 1..MaxTasks

\* Names for pool threads: as many as the pool could ever be asked for.
PoolIds == 1..(IF MaxW > MaxTasks THEN MaxW ELSE MaxTasks)

\* Seconds: config.DOWNLOAD_TIMEOUT, the limit of the taskkill command and
\* the limit of the wait that reaps the killed process.
DOWNLOAD_TIMEOUT == 90
KILL_TIMEOUT == 10
REAP_TIMEOUT == 5

\* A pool thread outside _do_download.  Inside, the record holds the position
\* in download_page (at, attempt), its result (res) and, for this call: the
\* Popen calls made (launches), the sleeps taken, the processes started and
\* not yet reaped (live), the attempt that succeeded (okAt, 0: none) and, in
\* a traced call, the ways its attempts failed (modes) and the seconds the
\* last timed-out attempt took from Popen to the end of _kill_proc_tree (el).
IdleWorker ==
    [task |-> 0, at |-> "idle", attempt |-> 0, res |-> "none", launches |-> 0,
     sleeps |-> 0, live |-> 0, modes |-> {}, okAt |-> 0, el |-> 0]

NoStats == [c \in CatSet |-> [success |-> 0, fail |-> 0]]

\* State of the training runner (train.py), declared here for the same reason.
\* The largest NUM_EPOCHS, the largest SAVE_INTERVAL and the largest value of
\* a component of a state blob given to save_checkpoint alone.
MaxUnits == 20
MaxSaveInterval == 3
MaxBlob == 2

\* train.py:263: a numbered copy "every 10 epochs".
COARSE_INTERVAL == 10

\* Batches of one epoch, len(dataloader): optimizer steps per unit.
NumBatches == 2

\* get_checkpoint_path, get_epoch_checkpoint_path and path + ".tmp": the
\* paths of one monitor in CHECKPOINT_DIR.
LatestPath == [name |-> "latest", n |-> 0, tmp |-> FALSE]

EpochPath(n) == [name |-> "epoch", n |-> n, tmp |-> FALSE]

TmpOf(p) == [p EXCEPT !.tmp = TRUE]

CopyNumbers == {n \in 1..MaxUnits : n % COARSE_INTERVAL = 0}

CkptPaths ==
    LET final == {LatestPath} \cup {EpochPath(n) : n \in CopyNumbers}
    IN  final \cup {TmpOf(p) : p \in final}

\* Contents of a path: no file, a file torch.save has begun and not finished,
\* a whole checkpoint (the dict of lines 96-103, without loss and timestamp).
NoCkpt == [kind |-> "absent", epoch |-> 0, model |-> 0, opt |-> 0, sched |-> 0]

TornCkpt == [kind |-> "torn", epoch |-> 0, model |-> 0, opt |-> 0, sched |-> 0]

Ckpt_CountsUnits(e, S) ==
    [kind |-> "ckpt", epoch |-> e + 1, model |-> S.model, opt |-> S.opt,
     sched |-> S.sched]

Ckpt(e, S) ==
    [kind |-> "ckpt", epoch |-> e, model |-> S.model, opt |-> S.opt,
     sched |-> S.sched]

\* os.path.isfile.
IsFile(p) == ckFiles[p].kind # "absent"

\* Lines 187-192: a new model, optimizer and scheduler.
FreshNet == [model |-> 0, opt |-> 0, sched |-> 0]

\* Lines 212-243: one epoch of training and scheduler.step().
TrainedNet(S) ==
    [model |-> S.model + 1, opt |-> S.opt + NumBatches, sched |-> S.sched + 1]

RECURSIVE NetAfter(_)
NetAfter(k) == IF k = 0 THEN FreshNet ELSE TrainedNet(NetAfter(k - 1))

NoFiles == [p \in CkptPaths |-> NoCkpt]

NotLoaded == [path |-> LatestPath, epoch |-> -1, found |-> FALSE, net |-> FreshNet]

\* No training runner.
TrainOff ==
    /\ tpc = "off" /\ numEpochs = 0 /\ saveInterval = 1
    /\ ckFiles = NoFiles /\ net = FreshNet /\ start_epoch = 0 /\ epoch = 0
    /\ saveTo = LatestPath /\ executed = <<>> /\ loaded = NotLoaded
    /\ canonWrites = <<>> /\ copyWrites = <<>> /\ entryTarget = NoCkpt
    /\ filesAtStart = NoFiles /\ crashAt = "none" /\ doneBefore = FALSE

\* The searches of run_crawler.  The queries of a category
\* (config.SEARCH_QUERIES) and the URLs wanted per category (num_results).
NumQueries == 2
PagesWanted == 1

NoSearch ==
    [cat |-> 0, query |-> 0, had |-> "none", checked |-> FALSE,
     created |-> FALSE, gates |-> 0, outcome |-> "none", got |-> 0]

\* No search: the engine needs no browser and _search_driver is None.
SearchOff ==
    /\ engine = "duckduckgo" /\ browser = FALSE /\ search_driver = "none"
    /\ sCat = 1 /\ sQuery = 1 /\ sUrls = 0
    /\ sCount = [c \in CatSet |-> 0]
    /\ sCreated = 0 /\ sQuits = 0 /\ sAbandoned = 0 /\ sLast = NoSearch
    /\ sIn = FALSE /\ sUsers = {}

\* A runner that was not called.
IdleRunner ==
    [at |-> "off", start |-> 0, epoch |-> 0, units |-> <<>>, writes |-> <<>>,
     loads |-> 0]

NoInput == [ck |-> -1, total |-> 0, interval |-> 1, data |-> FALSE]

\* No comparison of the two runners.
EquivOff == qpc = "off" /\ qIn = NoInput /\ qA = IdleRunner /\ qB = IdleRunner

\* phase4_render: the pages rendered, and the monitors of config.MONITORS.
MaxPages == 2
NumMonitors == 2
MaxCalls == 2

RenderPairs == (1..MaxPages) \X (1..NumMonitors)

\* No call of phase4_render.
RenderOff ==
    /\ rpc = "off" /\ rHtml = 0 /\ rDisk = [p \in RenderPairs |-> "none"]
    /\ rIdx = 1 /\ rPaths = 0 /\ rRendered = {} /\ rFailed = {}
    /\ rSimFailed = FALSE /\ rCall = 1 /\ rRetried = {} /\ rRecorded = -1

\* run_crawler run after run: the files of one category (idx + 1 of line
\* 590), the URLs a search can return, the runs.
MaxKeys == 2
NumUrls == 2
MaxRuns == 2

ReuseKeys == 1..MaxKeys

NoFile == [st |-> "none", url |-> 0, ok |-> FALSE]

\* No call of run_crawler over an output directory.
ReuseOff ==
    /\ upc = "off" /\ uRun = 1 /\ uPosix = FALSE
    /\ uUrls = <<>> /\ uPrev = <<>> /\ uSame = TRUE
    /\ uIdx = 1 /\ uAttempt = 1 /\ uTasks = <<>>
    /\ uMap = [k \in ReuseKeys |-> 0] /\ uMapFile = [k \in ReuseKeys |-> 0]
    /\ uDisk = [k \in ReuseKeys |-> NoFile]
    /\ uSkipped = {} /\ uOk = {} /\ uWrote = {}

\* The components studied after the crawler and the trainer are not running.
LaterOff == EquivOff /\ RenderOff /\ ReuseOff

\* No call of _wait_for_captcha.
GateOff ==
    /\ gpc = "off" /\ gArg = [given |-> FALSE, val |-> 0]
    /\ gPlan = [fixed |-> FALSE, n |-> 0]
    /\ gElapsed = 0 /\ gSlept = 0 /\ gEvals = 0
    /\ gFirst = "none" /\ gSawFalse = FALSE /\ gRes = "none"

CrawlerOff ==
    /\ cW = 1 /\ cRetries = MAX_RETRIES /\ posix = FALSE
    /\ killTime = KILL_TIMEOUT /\ reapTime = REAP_TIMEOUT /\ trace = FALSE
    /\ urlCount = [c \in CatSet |-> 0] /\ onDisk = {}
    /\ cpc = "off" /\ tasks = <<>> /\ skipped = 0 /\ completedCnt = 0
    /\ stats = NoStats /\ progress = <<>>
    /\ counted = [t \in TaskIds |-> 0] /\ queue = <<>>
    /\ worker = [w \in PoolIds |-> IdleWorker]
    /\ fut = [t \in TaskIds |-> "none"]
    /\ yielded = {}
    /\ GateOff /\ TrainOff /\ SearchOff /\ LaterOff

InitDriver ==
    /\ file \in DriverFiles
    /\ mem = NoState /\ pc = "idle" /\ ph = 1 /\ exitCode = -1
    /\ runCrawler \in BOOLEAN /\ runSynthGen \in BOOLEAN
    /\ execSeq = <<>> /\ failed = "none" /\ loadedC = {} /\ writes = 0
    /\ markedRun = {} /\ skipRun = {} /\ skippedEver = {}
    /\ hadPrev = FALSE /\ prevExec = {} /\ prevFailed = "none"
    /\ prevAllDone = FALSE /\ resetBetween = FALSE /\ flipBetween = FALSE
    /\ HistIdle /\ CrawlerOff

prevVars == <<hadPrev, prevExec, prevFailed, prevAllDone, resetBetween, flipBetween>>

keptVars == <<prevVars, skippedEver>>

\* main, line 337: state = pipeline_state.load_state(). An exception of
\* load_state leaves main and ends the process with status 1.
StartRun ==
    /\ pc = "idle"
    /\ LET r == LoadState(file)
       IN  /\ mem' = r.st
           /\ loadedC' = Completed(r.st)
           /\ pc' = IF r.raises THEN "exited" ELSE "run"
           /\ exitCode' = IF r.raises THEN 1 ELSE -1
    /\ ph' = 1 /\ execSeq' = <<>> /\ failed' = "none" /\ writes' = 0
    /\ markedRun' = {} /\ skipRun' = {}
    /\ UNCHANGED <<file, runCrawler, runSynthGen, keptVars, nonDriverVars>>

\* What a call of mark_completed(state, p, d) by a phase function does to the run.
DriverMark(p, d) ==
    LET m == MarkCompleted(mem, p, d)
    IN  /\ mem' = m.st
        /\ file' = m.file
        /\ markedRun' = markedRun \cup {p}
        /\ IF m.raises
           THEN /\ pc' = "exited" /\ exitCode' = 1 /\ UNCHANGED <<ph, writes>>
           ELSE /\ ph' = ph + 1 /\ writes' = writes + 1 /\ UNCHANGED <<pc, exitCode>>

\* phaseN(state), first branch: is_completed, so print [SKIP] and return.
PhaseSkip ==
    /\ pc = "run" /\ ph <= Len(MainCalls)
    /\ IsCompleted(mem, MainCalls[ph])
    /\ ph' = ph + 1
    /\ UNCHANGED <<storeVars, exitCode, runCrawler, runSynthGen, execSeq, failed,
                   loadedC, writes, markedRun, skipRun, keptVars, nonDriverVars>>

\* A disabled branch that returns without marking the phase.
PhaseDisabled_NoMark ==
    /\ pc = "run" /\ ph <= Len(MainCalls)
    /\ ~IsCompleted(mem, MainCalls[ph])
    /\ ~PhaseEnabled(MainCalls[ph])
    /\ ph' = ph + 1
    /\ UNCHANGED <<storeVars, exitCode, runCrawler, runSynthGen, execSeq, failed,
                   loadedC, writes, markedRun, skipRun, keptVars, nonDriverVars>>

\* phase0_crawl / phase1_synth, second branch: the switch is off, so
\* mark_completed(state, phase, {"skipped": True}) and return.
PhaseDisabled ==
    /\ pc = "run" /\ ph <= Len(MainCalls)
    /\ ~IsCompleted(mem, MainCalls[ph])
    /\ ~PhaseEnabled(MainCalls[ph])
    /\ DriverMark(MainCalls[ph], "skipped")
    /\ skipRun' = skipRun \cup {MainCalls[ph]}
    /\ skippedEver' = skippedEver \cup {MainCalls[ph]}
    /\ UNCHANGED <<runCrawler, runSynthGen, execSeq, failed, loadedC, prevVars,
                   nonDriverVars>>

\* phaseN(state), the body runs to its end and its summary is marked.
PhaseBodyOk ==
    /\ pc = "run" /\ ph <= Len(MainCalls)
    /\ ~IsCompleted(mem, MainCalls[ph])
    /\ PhaseEnabled(MainCalls[ph])
    /\ execSeq' = Append(execSeq, MainCalls[ph])
    /\ DriverMark(MainCalls[ph], "result")
    /\ UNCHANGED <<runCrawler, runSynthGen, failed, loadedC, skipRun, keptVars,
                   nonDriverVars>>

\* A phase function that marks its phase in a finally clause, also when the body raised.
PhaseBodyRaise_MarksAnyway ==
    /\ pc = "run" /\ ph <= Len(MainCalls)
    /\ ~IsCompleted(mem, MainCalls[ph])
    /\ PhaseEnabled(MainCalls[ph])
    /\ execSeq' = Append(execSeq, MainCalls[ph])
    /\ failed' = MainCalls[ph]
    /\ mem' = MarkCompleted(mem, MainCalls[ph], "none").st
    /\ file' = MarkCompleted(mem, MainCalls[ph], "none").file
    /\ writes' = writes + 1
    /\ pc' = "exited" /\ exitCode' = 1
    /\ UNCHANGED <<ph, runCrawler, runSynthGen, loadedC, markedRun, skipRun,
                   keptVars, nonDriverVars>>

\* phaseN(state), the body raises: nothing catches it in the phase function or
\* in main, the interpreter ends with status 1.
PhaseBodyRaise ==
    /\ pc = "run" /\ ph <= Len(MainCalls)
    /\ ~IsCompleted(mem, MainCalls[ph])
    /\ PhaseEnabled(MainCalls[ph])
    /\ execSeq' = Append(execSeq, MainCalls[ph])
    /\ failed' = MainCalls[ph]
    /\ pc' = "exited" /\ exitCode' = 1
    /\ UNCHANGED <<file, mem, ph, runCrawler, runSynthGen, loadedC, writes,
                   markedRun, skipRun, keptVars, nonDriverVars>>

\* main, lines 347-354: the six calls have returned, main returns, status 0.
MainReturn ==
    /\ pc = "run" /\ ph = Len(MainCalls) + 1
    /\ pc' = "exited" /\ exitCode' = 0
    /\ UNCHANGED <<file, mem, ph, runCrawler, runSynthGen, execSeq, failed,
                   loadedC, writes, markedRun, skipRun, keptVars, nonDriverVars>>

\* The process is gone; what the run did becomes the history of "the run before".
EndRun ==
    /\ pc = "exited"
    /\ pc' = "idle" /\ mem' = NoState /\ ph' = 1
    /\ hadPrev' = TRUE
    /\ prevExec' = Range(execSeq)
    /\ prevFailed' = failed
    /\ prevAllDone' = (PhaseSet \subseteq Completed(mem))
    /\ resetBetween' = FALSE /\ flipBetween' = FALSE
    /\ execSeq' = <<>> /\ failed' = "none" /\ loadedC' = {} /\ writes' = 0
    /\ markedRun' = {} /\ skipRun' = {}
    /\ UNCHANGED <<file, exitCode, runCrawler, runSynthGen, skippedEver, nonDriverVars>>

\* reset_state, called between two runs: the state file is removed.
ResetState ==
    /\ pc = "idle" /\ file.kind # "absent"
    /\ file' = AbsentFile
    /\ resetBetween' = TRUE
    /\ skippedEver' = {}
    /\ UNCHANGED <<mem, pc, ph, exitCode, runCrawler, runSynthGen, execSeq, failed,
                   loadedC, writes, markedRun, skipRun, hadPrev, prevExec,
                   prevFailed, prevAllDone, flipBetween, nonDriverVars>>

\* config.py edited between two runs: RUN_CRAWLER switched.
FlipRunCrawler ==
    /\ pc = "idle" /\ hadPrev
    /\ runCrawler' = ~runCrawler
    /\ flipBetween' = TRUE
    /\ UNCHANGED <<storeVars, ph, exitCode, runSynthGen, execSeq, failed, loadedC,
                   writes, markedRun, skipRun, skippedEver, hadPrev, prevExec, prevFailed,
                   prevAllDone, resetBetween, nonDriverVars>>

\* config.py edited between two runs: RUN_SYNTH_GEN switched.
FlipRunSynthGen ==
    /\ pc = "idle" /\ hadPrev
    /\ runSynthGen' = ~runSynthGen
    /\ flipBetween' = TRUE
    /\ UNCHANGED <<storeVars, ph, exitCode, runCrawler, execSeq, failed, loadedC,
                   writes, markedRun, skipRun, skippedEver, hadPrev, prevExec, prevFailed,
                   prevAllDone, resetBetween, nonDriverVars>>

Next ==
    \/ StartRun \/ PhaseSkip \/ PhaseDisabled \/ PhaseBodyOk \/ PhaseBodyRaise
    \/ MainReturn \/ EndRun \/ ResetState \/ FlipRunCrawler \/ FlipRunSynthGen

Spec == InitDriver /\ [][Next]_vars

----------------------------------------------------------------------------
(* pipeline_state.py driven call by call, the process killed at any instant *)

\* The number of phases the calls below mark.
NumStorePhases == 3

StorePhases == {PHASES[i] : i \in 1..NumStorePhases}

\* The payload arguments of mark_completed: None, or a summary.
StoreData == {"none", "result"}

\* The state files a call of load_state may find: the files of the driver, and
\* other contents of the path: bytes that are not text, JSON that is not an
\* object.
StoreFiles ==
    {AbsentFile, GarbageFile, BinaryFile, NonObjectFile}
    \cup {ObjectFile(FullState(S)) : S \in SUBSET StorePhases}

DriverIdle ==
    /\ ph = 1 /\ exitCode = -1 /\ runCrawler = TRUE /\ runSynthGen = FALSE
    /\ execSeq = <<>> /\ failed = "none" /\ loadedC = {} /\ writes = 0
    /\ markedRun = {} /\ skipRun = {} /\ skippedEver = {}
    /\ hadPrev = FALSE /\ prevExec = {} /\ prevFailed = "none"
    /\ prevAllDone = FALSE /\ resetBetween = FALSE /\ flipBetween = FALSE

InitStore ==
    /\ file \in StoreFiles
    /\ mem = NoState /\ pc = "dead"
    /\ DriverIdle /\ CrawlerOff
    /\ returned = {} /\ wPre = EmptyState /\ wNew = EmptyState /\ wPhase = "none"
    /\ crashW = FALSE /\ tornSince = FALSE /\ memHigh = {}
    /\ durableHigh = IF LoadState(file).raises THEN {} ELSE Completed(LoadState(file).st)
    /\ lastLoad = [kind |-> "none", raised |-> FALSE, empty |-> FALSE]
    /\ lastMark = [phase |-> "none", present |-> FALSE]

\* A new process calls load_state. An exception ends the process.
StoreLoad ==
    /\ pc = "dead"
    /\ LET r == LoadState(file)
       IN  /\ lastLoad' = [kind |-> file.kind, raised |-> r.raises,
                           empty |-> (~r.raises /\ r.st = EmptyState)]
           /\ mem' = r.st
           /\ pc' = IF r.raises THEN "dead" ELSE "ready"
           /\ memHigh' = Completed(r.st)
    /\ UNCHANGED <<file, nonStoreVars, returned, wPre, wNew, wPhase, crashW,
                   tornSince, durableHigh, lastMark>>

\* mark_completed(state, p, d), lines 65-68 and the open(..., "w") of save_state:
\* the dict is updated and the file truncated; a KeyError ends the process
\* before the file is touched.
StoreMarkBegin(p, d) ==
    /\ pc = "ready"
    /\ LET m == MarkMem(mem, p, d)
       IN  /\ lastMark' = [phase |-> p, present |-> IsCompleted(mem, p)]
           /\ IF m.raises
              THEN /\ pc' = "dead" /\ mem' = NoState /\ memHigh' = {}
                   /\ UNCHANGED <<file, wPre, wNew, wPhase, crashW>>
              ELSE /\ pc' = "writing" /\ mem' = m.st
                   /\ memHigh' = memHigh \cup Completed(m.st)
                   /\ file' = TornFile
                   /\ wPre' = LoadState(file).st /\ wNew' = m.st /\ wPhase' = p
                   /\ crashW' = FALSE
    /\ UNCHANGED <<nonStoreVars, returned, tornSince, durableHigh, lastLoad>>

\* save_state runs to its end (json.dump, close) and mark_completed returns.
StoreMarkEnd ==
    /\ pc = "writing"
    /\ file' = SaveState(mem)
    /\ pc' = "ready"
    /\ returned' = returned \cup {wPhase}
    /\ durableHigh' = durableHigh \cup Completed(mem)
    /\ UNCHANGED <<mem, nonStoreVars, wPre, wNew, wPhase, crashW, tornSince,
                   memHigh, lastLoad, lastMark>>

\* The process is killed; the file stays as it is at that instant.
StoreKill ==
    /\ pc \in {"ready", "writing"}
    /\ pc' = "dead" /\ mem' = NoState /\ memHigh' = {}
    /\ crashW' = (pc = "writing")
    /\ tornSince' = (tornSince \/ pc = "writing")
    /\ UNCHANGED <<file, nonStoreVars, returned, wPre, wNew, wPhase, durableHigh,
                   lastLoad, lastMark>>

\* reset_state, called while no process runs.
StoreReset ==
    /\ pc = "dead" /\ file.kind # "absent"
    /\ file' = AbsentFile
    /\ returned' = {} /\ durableHigh' = {} /\ tornSince' = FALSE /\ crashW' = FALSE
    /\ UNCHANGED <<mem, pc, nonStoreVars, wPre, wNew, wPhase, memHigh, lastLoad,
                   lastMark>>

NextStore ==
    \/ StoreLoad
    \/ \E p \in StorePhases, d \in StoreData : StoreMarkBegin(p, d)
    \/ StoreMarkEnd
    \/ StoreKill
    \/ StoreReset

SpecStore == InitStore /\ [][NextStore]_vars

----------------------------------------------------------------------------
(* crawler.py: run_crawler and its thread pool                             *)

RECURSIVE SumOver(_, _)
\* f[Cats[j]] + ... + f[Cats[Len(Cats)]]
SumOver(f, j) == IF j > Len(Cats) THEN 0 ELSE f[Cats[j]] + SumOver(f, j + 1)

\* The keys of a category's URLs, in the order of the search result (line 590:
\* the file name carries idx + 1).
UrlKeys(c) == [i \in 1..urlCount[c] |-> <<c, i>>]

\* Lines 595-601: the URLs of a category whose file is not there yet.
CategoryTasks(c) == SelectSeq(UrlKeys(c), LAMBDA k : k \notin onDisk)

\* Lines 595-599: the URLs of a category skipped as already there.
CategorySkipped(c) == Cardinality({i \in 1..urlCount[c] : <<c, i>> \in onDisk})

RECURSIVE TasksFrom(_)
\* Lines 578-601: the task list, category after category.
TasksFrom(j) ==
    IF j > Len(Cats) THEN <<>> ELSE CategoryTasks(Cats[j]) \o TasksFrom(j + 1)

\* Lines 585-598: stats after the collection loop.
StatsAfterCollection ==
    [c \in CatSet |-> [success |-> CategorySkipped(c), fail |-> 0]]

TotalOf(st) ==
    SumOver([c \in CatSet |-> st[c].success], 1) + SumOver([c \in CatSet |-> st[c].fail], 1)

\* The searches return up to MaxTasks URLs in all, shared evenly between the
\* categories (the first category has the odd one).
UrlCounts ==
    {u \in [CatSet -> 0..MaxTasks] :
        /\ SumOver(u, 1) <= MaxTasks
        /\ u[Cats[2]] <= u[Cats[1]] /\ u[Cats[1]] <= u[Cats[2]] + 1}

\* run_crawler has collected nothing and has no pool; ids names the futures.
CrawlerFresh(ids) ==
    /\ tasks = <<>> /\ skipped = 0 /\ completedCnt = 0
    /\ stats = NoStats /\ progress = <<>>
    /\ counted = [t \in ids |-> 0] /\ queue = <<>>
    /\ worker = [w \in PoolIds |-> IdleWorker]
    /\ fut = [t \in ids |-> "none"]
    /\ yielded = {}
    /\ file = AbsentFile /\ mem = NoState /\ pc = "idle"
    /\ DriverIdle /\ HistIdle /\ GateOff /\ TrainOff /\ LaterOff

\* run_crawler with the URLs of its searches in hand, the searches having
\* used no browser.
CrawlerEntry(ids) == cpc = "start" /\ CrawlerFresh(ids) /\ SearchOff

InitCrawler ==
    /\ cW \in 1..MaxW
    /\ cRetries = MAX_RETRIES
    /\ posix \in BOOLEAN
    /\ killTime = KILL_TIMEOUT /\ reapTime = REAP_TIMEOUT /\ trace = FALSE
    /\ urlCount \in UrlCounts
    /\ onDisk \in SUBSET {<<c, i>> : c \in CatSet, i \in 1..MaxTasks}
    /\ \A k \in onDisk : k[2] <= urlCount[k[1]]
    /\ CrawlerEntry(TaskIds)

poolVars == <<queue, worker, fut>>
inputVars == <<cW, cRetries, posix, killTime, reapTime, trace, urlCount>>

\* Lines 570-608 when no task is left to download: the mapping is saved and the
\* function returns stats.
CrawlerStartNoTasks ==
    /\ cpc = "start"
    /\ TasksFrom(1) = <<>>
    /\ tasks' = <<>>
    /\ skipped' = SumOver([c \in CatSet |-> CategorySkipped(c)], 1)
    /\ stats' = StatsAfterCollection
    /\ cpc' = "returned"
    /\ UNCHANGED <<inputVars, onDisk, completedCnt, progress, counted, poolVars,
                   yielded, nonCrawlerVars>>

\* Lines 570-620: the tasks are collected, the pool is created and every task
\* is submitted to it.
CrawlerStartPool ==
    /\ cpc = "start"
    /\ TasksFrom(1) # <<>>
    /\ tasks' = TasksFrom(1)
    /\ skipped' = SumOver([c \in CatSet |-> CategorySkipped(c)], 1)
    /\ stats' = StatsAfterCollection
    /\ completedCnt' = 0
    /\ queue' = [t \in 1..Len(TasksFrom(1)) |-> t]
    /\ fut' = [t \in DOMAIN fut |-> IF t <= Len(TasksFrom(1)) THEN "pending" ELSE "none"]
    /\ cpc' = "pool"
    /\ UNCHANGED <<inputVars, onDisk, progress, counted, worker, yielded,
                   nonCrawlerVars>>

\* A pool with one thread per task, whatever CONCURRENT_DOWNLOADS says.
PoolWorkers_OnePerTask == 1..Len(tasks)

\* Line 619: ThreadPoolExecutor(max_workers=config.CONCURRENT_DOWNLOADS).
PoolWorkers == 1..cW

\* A pool thread that has nothing to run takes the oldest submitted work item
\* and calls _do_download, which calls download_page.
WorkerTake(w) ==
    /\ cpc = "pool" /\ w \in PoolWorkers
    /\ worker[w].at = "idle" /\ queue # <<>>
    /\ worker' = [worker EXCEPT ![w] = [IdleWorker EXCEPT !.task = Head(queue),
                                                        !.at = "launch",
                                                        !.attempt = 1]]
    /\ fut' = [fut EXCEPT ![Head(queue)] = "running"]
    /\ queue' = Tail(queue)
    /\ UNCHANGED <<inputVars, onDisk, cpc, tasks, skipped, completedCnt, stats,
                   progress, counted, yielded, nonCrawlerVars>>

mainVars == <<cpc, tasks, skipped, completedCnt, stats, progress, counted, yielded>>

\* _do_download returns (or raises): the future is resolved and the thread is free.
Resolve(w, r) ==
    /\ fut' = [fut EXCEPT ![worker[w].task] = r]
    /\ worker' = [worker EXCEPT ![w] = IdleWorker]

\* What a traced call records.
NoteMode(r, m) == IF trace THEN [r EXCEPT !.modes = @ \cup {m}] ELSE r

NoteTime(r, t) == IF trace THEN [r EXCEPT !.el = t] ELSE r

\* A download_page that sleeps and goes round again whatever the attempt.
AfterFailedAttempt_NoLimit(r) == [r EXCEPT !.at = "sleep"]

\* download_page after an attempt that failed (lines 485-487, 495-508): sleep
\* and go round again if attempts are left, return False otherwise.
AfterFailedAttempt(r) ==
    IF r.attempt < cRetries
    THEN [r EXCEPT !.at = "sleep"]
    ELSE [r EXCEPT !.at = "ret", !.res = "false"]

\* Lines 466-477: Popen starts the process.
LaunchStarted(w) ==
    /\ cpc = "pool" /\ worker[w].at = "launch"
    /\ worker' = [worker EXCEPT ![w] =
                     NoteTime([@ EXCEPT !.at = "wait", !.launches = @ + 1,
                                        !.live = @ + 1], 0)]
    /\ UNCHANGED <<inputVars, onDisk, mainVars, queue, fut, nonCrawlerVars>>

\* A download_page that treats FileNotFoundError like any other exception.
LaunchNotFound_Retries(w) ==
    /\ cpc = "pool" /\ worker[w].at = "launch"
    /\ worker' = [worker EXCEPT ![w] =
                     AfterFailedAttempt(NoteMode([@ EXCEPT !.launches = @ + 1],
                                                 "notfound"))]
    /\ UNCHANGED <<inputVars, onDisk, mainVars, queue, fut, nonCrawlerVars>>

\* Lines 497-499: Popen raises FileNotFoundError, download_page returns False.
LaunchNotFound(w) ==
    /\ cpc = "pool" /\ worker[w].at = "launch"
    /\ worker' = [worker EXCEPT ![w] =
                     NoteMode([@ EXCEPT !.at = "ret", !.res = "false",
                                        !.launches = @ + 1], "notfound")]
    /\ UNCHANGED <<inputVars, onDisk, mainVars, queue, fut, nonCrawlerVars>>

\* Lines 500-506: Popen raises another exception; there is no process to kill.
LaunchError(w) ==
    /\ cpc = "pool" /\ worker[w].at = "launch"
    /\ worker' = [worker EXCEPT ![w] =
                     AfterFailedAttempt(NoteMode([@ EXCEPT !.launches = @ + 1],
                                                 "error"))]
    /\ UNCHANGED <<inputVars, onDisk, mainVars, queue, fut, nonCrawlerVars>>

\* How a process can end: its exit code, and the output file it leaves (none,
\* one of at most 100 bytes, one of more).
ExitCodes == {0, 1}

FileStates == {"none", "short", "good"}

\* Lines 489-491: returncode == 0, the file exists and its size is above 100.
Good(rc, f) == rc = 0 /\ f = "good"

\* A download_page that notes the success and goes on to the next attempt.
ExitSuccess_GoesOn(w) ==
    /\ cpc = "pool" /\ worker[w].at = "wait"
    /\ onDisk' = onDisk \cup {tasks[worker[w].task]}
    /\ worker' = [worker EXCEPT ![w] =
                     AfterFailedAttempt([@ EXCEPT !.live = @ - 1,
                                                  !.okAt = worker[w].attempt])]
    /\ UNCHANGED <<inputVars, mainVars, queue, fut, nonCrawlerVars>>

\* Lines 479-493: the process ends in time with code 0 and the output file has
\* more than 100 bytes; download_page returns True.
ExitSuccess(w) ==
    /\ cpc = "pool" /\ worker[w].at = "wait"
    /\ \E rc \in ExitCodes, f \in FileStates : Good(rc, f)
    /\ onDisk' = onDisk \cup {tasks[worker[w].task]}
    /\ worker' = [worker EXCEPT ![w].at = "ret", ![w].res = "true",
                                ![w].live = @ - 1,
                                ![w].okAt = worker[w].attempt]
    /\ UNCHANGED <<inputVars, mainVars, queue, fut, nonCrawlerVars>>

\* Lines 489-495, 505-506: the process ends in time with another code, or with
\* no output file, or a file of at most 100 bytes.
ExitFailure(w) ==
    /\ cpc = "pool" /\ worker[w].at = "wait"
    /\ \E rc \in ExitCodes, f \in FileStates :
          /\ ~Good(rc, f)
          /\ worker' = [worker EXCEPT ![w] =
                AfterFailedAttempt(NoteMode([@ EXCEPT !.live = @ - 1],
                                            IF rc # 0 THEN "exit" ELSE "badfile"))]
    /\ UNCHANGED <<inputVars, onDisk, mainVars, queue, fut, nonCrawlerVars>>

\* Lines 480-483: proc.wait raises TimeoutExpired after DOWNLOAD_TIMEOUT
\* seconds; _kill_proc_tree is called.
Timeout(w) ==
    /\ cpc = "pool" /\ worker[w].at = "wait"
    /\ worker' = [worker EXCEPT ![w] =
                     NoteTime(NoteMode([@ EXCEPT !.at = "kill"], "timeout"),
                              DOWNLOAD_TIMEOUT)]
    /\ UNCHANGED <<inputVars, onDisk, mainVars, queue, fut, nonCrawlerVars>>

\* A reaping wait with no limit of its own, which can take an hour.
ReapTimes_NoLimit == {0, REAP_TIMEOUT, 3600}

\* Line 528: proc.wait(timeout=5) takes up to REAP_TIMEOUT seconds.
ReapTimes == {0, REAP_TIMEOUT}

\* Lines 516-519: subprocess.run(taskkill, timeout=10) takes up to KILL_TIMEOUT.
KillTimes == {0, KILL_TIMEOUT}

\* _kill_proc_tree on Windows (lines 514-519, 527-530): taskkill /F /T ends the
\* process and its descendants, proc.wait reaps it; then lines 484-487.
KillTree(w) ==
    /\ cpc = "pool" /\ worker[w].at = "kill" /\ ~posix
    /\ worker' = [worker EXCEPT ![w] =
                     AfterFailedAttempt(
                         NoteTime([@ EXCEPT !.live = @ - 1],
                                  worker[w].el + killTime + reapTime))]
    /\ UNCHANGED <<inputVars, onDisk, mainVars, queue, fut, nonCrawlerVars>>

\* _kill_proc_tree elsewhere (line 521): Popen (lines 472-477) started the
\* process in the process group of the crawler itself, so
\* os.killpg(os.getpgid(proc.pid), SIGKILL) kills that whole group: the timed
\* out process, the processes of the other pool threads and the crawler.
KillGroup(w) ==
    /\ cpc = "pool" /\ worker[w].at = "kill" /\ posix
    /\ cpc' = "killed"
    /\ worker' = [v \in DOMAIN worker |-> [worker[v] EXCEPT !.live = 0]]
    /\ UNCHANGED <<inputVars, onDisk, tasks, skipped, completedCnt, stats, progress,
                   counted, yielded, queue, fut, nonCrawlerVars>>

\* Lines 485-487, 505-506: time.sleep(REQUEST_DELAY), then the next attempt.
Sleep(w) ==
    /\ cpc = "pool" /\ worker[w].at = "sleep"
    /\ worker' = [worker EXCEPT ![w].at = "launch", ![w].attempt = @ + 1,
                                ![w].sleeps = @ + 1]
    /\ UNCHANGED <<inputVars, onDisk, mainVars, queue, fut, nonCrawlerVars>>

\* Lines 612-617: download_page has returned, _do_download returns its tuple.
Deliver(w) ==
    /\ cpc = "pool" /\ worker[w].at = "ret"
    /\ Resolve(w, IF worker[w].res = "true" THEN "ok" ELSE "fail")
    /\ UNCHANGED <<inputVars, onDisk, mainVars, queue, nonCrawlerVars>>

\* An exception leaves download_page and _do_download (raised by line 469 and
\* again in the except clause, or around the sleep); the future holds it.
WorkerRaise(w) ==
    /\ cpc = "pool" /\ worker[w].at \in {"launch", "sleep"}
    /\ Resolve(w, "exc")
    /\ UNCHANGED <<inputVars, onDisk, mainVars, queue, nonCrawlerVars>>

\* A loop body that does not count a future that raised.
CountOutcome_DropsExceptions(st, c, r) ==
    IF r = "ok" THEN [st EXCEPT ![c].success = @ + 1]
    ELSE IF r = "fail" THEN [st EXCEPT ![c].fail = @ + 1]
    ELSE st

\* Lines 625-636: stats after the outcome r of a task of category c.
CountOutcome(st, c, r) ==
    IF r = "ok" THEN [st EXCEPT ![c].success = @ + 1]
    ELSE [st EXCEPT ![c].fail = @ + 1]

\* Lines 622-638: one turn of the as_completed loop, on a future that is done.
Collect(t) ==
    /\ cpc = "pool"
    /\ t \in 1..Len(tasks) /\ t \notin yielded
    /\ fut[t] \in {"ok", "fail", "exc"}
    /\ yielded' = yielded \cup {t}
    /\ completedCnt' = completedCnt + 1
    /\ stats' = CountOutcome(stats, tasks[t][1], fut[t])
    /\ counted' = [counted EXCEPT ![t] = @ + TotalOf(stats') - TotalOf(stats)]
    /\ progress' = IF fut[t] = "exc" THEN progress
                   ELSE Append(progress, completedCnt + 1)
    /\ UNCHANGED <<inputVars, onDisk, cpc, tasks, skipped, poolVars, nonCrawlerVars>>

\* _close_search_driver, lines 156-165: quit() with every exception swallowed,
\* then _search_driver = None; nothing when it is None already.
CloseSearchDriver ==
    /\ search_driver' = "none"
    /\ sQuits' = IF search_driver # "none" THEN sQuits + 1 ELSE sQuits
    /\ UNCHANGED <<engine, browser, sCat, sQuery, sUrls, sCount, sCreated,
                   sAbandoned, sIn, sUsers, sLast>>

\* Lines 638-654: as_completed is exhausted, the with block ends, the mapping is
\* saved, the summary printed, the search browser closed; stats is returned.
CrawlerFinish ==
    /\ cpc = "pool"
    /\ yielded = 1..Len(tasks)
    /\ CloseSearchDriver
    /\ cpc' = "returned"
    /\ UNCHANGED <<inputVars, onDisk, tasks, skipped, completedCnt, stats, progress,
                   counted, yielded, poolVars, nonRunVars>>

NextCrawler ==
    \/ CrawlerStartNoTasks
    \/ CrawlerStartPool
    \/ \E w \in PoolIds :
          \/ WorkerTake(w)
          \/ LaunchStarted(w) \/ LaunchNotFound(w) \/ LaunchError(w)
          \/ ExitSuccess(w) \/ ExitFailure(w) \/ Timeout(w)
          \/ KillTree(w) \/ KillGroup(w)
          \/ Sleep(w) \/ Deliver(w) \/ WorkerRaise(w)
    \/ \E t \in DOMAIN fut : Collect(t)
    \/ CrawlerFinish

SpecCrawler == InitCrawler /\ [][NextCrawler]_vars

\* The pool threads and the main thread are scheduled by the operating system
\* and the interpreter: a step that stays possible is taken.
SpecCrawlerLive == SpecCrawler /\ WF_vars(NextCrawler)

----------------------------------------------------------------------------
(* One call of download_page, traced: a batch of one URL in a pool of one   *)
(* thread, for every MAX_RETRIES up to MaxRetries and every time the kill   *)
(* and the reaping wait can take.                                           *)

MaxRetries == 3

InitDownload ==
    /\ cW = 1
    /\ cRetries \in 1..MaxRetries
    /\ posix \in BOOLEAN
    /\ killTime \in KillTimes /\ reapTime \in ReapTimes /\ trace = TRUE
    /\ urlCount = [c \in CatSet |-> IF c = Cats[1] THEN 1 ELSE 0]
    /\ onDisk \in {{}, {<<Cats[1], 1>>}}
    /\ CrawlerEntry(TaskIds)

SpecDownload == InitDownload /\ [][NextCrawler]_vars

----------------------------------------------------------------------------
(* The example batch: five tasks, two pool threads, MAX_RETRIES = 2; the    *)
(* second and the fourth task fail at every attempt, the others succeed at  *)
(* the first.                                                               *)

ScenarioIds == 1..5

AlwaysFail == {2, 4}

InitScenario ==
    /\ cW = 2
    /\ cRetries = 2
    /\ posix \in BOOLEAN
    /\ killTime = KILL_TIMEOUT /\ reapTime = REAP_TIMEOUT /\ trace = FALSE
    /\ urlCount = [c \in CatSet |-> IF c = Cats[1] THEN 3 ELSE 2]
    /\ onDisk = {}
    /\ CrawlerEntry(ScenarioIds)

\* run_crawler with the external processes behaving as the example says: the
\* process of a failing task times out or ends with a failure, the process
\* of another task ends with a good file.
NextScenario ==
    \/ CrawlerStartPool
    \/ \E w \in PoolIds :
          \/ WorkerTake(w)
          \/ LaunchStarted(w)
          \/ worker[w].task \notin AlwaysFail /\ ExitSuccess(w)
          \/ worker[w].task \in AlwaysFail /\ ExitFailure(w)
          \/ worker[w].task \in AlwaysFail /\ Timeout(w)
          \/ KillTree(w) \/ KillGroup(w)
          \/ Sleep(w) \/ Deliver(w)
    \/ \E t \in DOMAIN fut : Collect(t)
    \/ CrawlerFinish

SpecScenario == InitScenario /\ [][NextScenario]_vars

----------------------------------------------------------------------------
(* crawler.py: _wait_for_captcha, the gate that waits for a person to       *)
(* solve a captcha                                                          *)

CAPTCHA_WAIT_TIMEOUT == 300
GATE_POLL == 2

\* The largest timeout a caller passes (callers may also pass none).
MaxGateTimeout == 5

\* Seconds an evaluation of check_fn can take between two readings of the clock.
EvalTimes == {0, 1}

\* Lines 181-182: the timeout in force.
GateTimeout == IF gArg.given THEN gArg.val ELSE CAPTCHA_WAIT_TIMEOUT

\* What the first evaluation of check_fn (line 184) can return: under a plan
\* the page shows the captcha from the start unless it never does.
FirstValues == IF gPlan.fixed THEN {gPlan.n > 0} ELSE BOOLEAN

\* What an evaluation of the loop condition (line 194) can return, gEvals - 1
\* evaluations of it being made.
LoopValues == IF gPlan.fixed THEN {gEvals - 1 < gPlan.n} ELSE BOOLEAN

\* The state of the store, the driver and the crawler while another component
\* is studied alone.
PipelineIdle ==
    /\ DriverIdle /\ HistIdle
    /\ cW = 1 /\ cRetries = MAX_RETRIES /\ posix = FALSE
    /\ killTime = KILL_TIMEOUT /\ reapTime = REAP_TIMEOUT /\ trace = FALSE
    /\ urlCount = [c \in CatSet |-> 0] /\ onDisk = {}
    /\ cpc = "off" /\ tasks = <<>> /\ skipped = 0 /\ completedCnt = 0
    /\ stats = NoStats /\ progress = <<>>
    /\ counted = [t \in TaskIds |-> 0] /\ queue = <<>>
    /\ worker = [w \in PoolIds |-> IdleWorker]
    /\ fut = [t \in TaskIds |-> "none"]
    /\ yielded = {}

CoreIdle == file = AbsentFile /\ mem = NoState /\ pc = "idle" /\ PipelineIdle

OthersIdle == CoreIdle /\ LaterOff

InitGate ==
    /\ gpc = "first"
    /\ gArg \in {[given |-> FALSE, val |-> 0]}
                \cup {[given |-> TRUE, val |-> t] : t \in 0..MaxGateTimeout}
    /\ gPlan = [fixed |-> FALSE, n |-> 0]
    /\ gElapsed = 0 /\ gSlept = 0 /\ gEvals = 0
    /\ gFirst = "none" /\ gSawFalse = FALSE /\ gRes = "none"
    /\ OthersIdle /\ TrainOff /\ SearchOff

\* A gate with no test before its loop.
GateFirstCheck_NoFastPath ==
    /\ gpc = "first"
    /\ \E p \in FirstValues :
          /\ gFirst' = IF p THEN "true" ELSE "false"
          /\ gSawFalse' = ~p
    /\ gEvals' = gEvals + 1
    /\ gpc' = "loop"
    /\ UNCHANGED <<gArg, gPlan, gElapsed, gSlept, gRes, nonGateVars>>

\* Lines 181-193: the first evaluation of check_fn; False returns True, True
\* prints the notice and reads the clock into start.
GateFirstCheck ==
    /\ gpc = "first"
    /\ \E p \in FirstValues :
          /\ gFirst' = IF p THEN "true" ELSE "false"
          /\ gSawFalse' = ~p
          /\ gpc' = IF p THEN "loop" ELSE "done"
          /\ gRes' = IF p THEN "none" ELSE "true"
    /\ gEvals' = gEvals + 1
    /\ UNCHANGED <<gArg, gPlan, gElapsed, gSlept, nonGateVars>>

\* A test that gives up when the wait has reached the timeout.
TimedOut_AtLimit(e, t) == e >= t

\* Line 196: elapsed > timeout.
TimedOut(e, t) == e > t

\* Lines 194-200, 203-204: the loop condition evaluates check_fn; False leaves
\* the loop and returns True; True reads the clock and returns False when the
\* timeout is passed.
GateLoopCheck ==
    /\ gpc = "loop"
    /\ \E p \in LoopValues, d \in EvalTimes :
          /\ gElapsed' = gElapsed + d
          /\ gSawFalse' = (gSawFalse \/ ~p)
          /\ gpc' = IF ~p \/ TimedOut(gElapsed + d, GateTimeout) THEN "done" ELSE "sleep"
          /\ gRes' = IF ~p THEN "true"
                     ELSE IF TimedOut(gElapsed + d, GateTimeout) THEN "false"
                     ELSE "none"
    /\ gEvals' = gEvals + 1
    /\ UNCHANGED <<gArg, gPlan, gSlept, gFirst, nonGateVars>>

\* A gate that polls every second.
GateSleep_OneSecond ==
    /\ gpc = "sleep"
    /\ gSlept' = gSlept + 1
    /\ gElapsed' = gElapsed + 1
    /\ gpc' = "loop"
    /\ UNCHANGED <<gArg, gPlan, gEvals, gFirst, gSawFalse, gRes, nonGateVars>>

\* Line 201: time.sleep(2).
GateSleep ==
    /\ gpc = "sleep"
    /\ gSlept' = gSlept + GATE_POLL
    /\ gElapsed' = gElapsed + GATE_POLL
    /\ gpc' = "loop"
    /\ UNCHANGED <<gArg, gPlan, gEvals, gFirst, gSawFalse, gRes, nonGateVars>>

NextGate == GateFirstCheck \/ GateLoopCheck \/ GateSleep

\* The thread that called _wait_for_captcha keeps running.
SpecGate == InitGate /\ [][NextGate]_vars /\ WF_vars(NextGate)

\* The largest number of polls for which the captcha stays in the example.
MaxTruePolls == 6

\* The example gate: timeout = 60, a predicate that is True for a number of
\* polls of the loop and False from then on.
InitGateScenario ==
    /\ gpc = "first"
    /\ gArg = [given |-> TRUE, val |-> 60]
    /\ gPlan \in {[fixed |-> TRUE, n |-> k] : k \in 0..MaxTruePolls}
    /\ gElapsed = 0 /\ gSlept = 0 /\ gEvals = 0
    /\ gFirst = "none" /\ gSawFalse = FALSE /\ gRes = "none"
    /\ OthersIdle /\ TrainOff /\ SearchOff

SpecGateScenario == InitGateScenario /\ [][NextGate]_vars

----------------------------------------------------------------------------
(* run_crawler from its first line: the searches of the collection loop    *)
(* (_get_target_urls, _google_search, _bing_search, _duckduckgo_search)    *)
(* with the browser session they share, then the pool                     *)

\* config.SEARCH_ENGINE, lines 425 and 435-440.
Engines == {"google", "bing", "duckduckgo"}

UsesBrowser == engine \in {"google", "bing"}

\* What _wait_for_captcha can return.
GateResults == {"true", "false"}

\* _get_search_driver, lines 43-153, with _search_driver in state d: a session
\* that answers is returned as it is; one that does not is dropped; without a
\* session an Edge or Chrome browser is started, and RuntimeError is raised
\* when there is none.
GetSearchDriver(d) ==
    IF d = "alive"
    THEN [driver |-> "alive", checked |-> TRUE, created |-> FALSE, raised |-> FALSE]
    ELSE IF browser
    THEN [driver |-> "alive", checked |-> d = "dead", created |-> TRUE,
          raised |-> FALSE]
    ELSE [driver |-> "none", checked |-> d = "dead", created |-> FALSE,
          raised |-> TRUE]

\* A search that reads the page whatever the gate returned.
SearchResult_IgnoresGate(gate, found) == found

\* Lines 242-244 and 318-320: if not _wait_for_captcha(...): return [];
\* otherwise the links found on the page.
SearchResult(gate, found) == IF gate = "false" THEN 0 ELSE found

InitRun ==
    /\ cpc = "collect"
    /\ cW = 1 /\ cRetries = MAX_RETRIES /\ posix \in BOOLEAN
    /\ killTime = KILL_TIMEOUT /\ reapTime = REAP_TIMEOUT /\ trace = FALSE
    /\ urlCount = [c \in CatSet |-> 0]
    /\ onDisk \in SUBSET {<<c, i>> : c \in CatSet, i \in 1..PagesWanted}
    /\ CrawlerFresh(TaskIds)
    /\ engine \in Engines /\ browser \in BOOLEAN /\ search_driver = "none"
    /\ sCat = 1 /\ sQuery = 1 /\ sUrls = 0
    /\ sCount = [c \in CatSet |-> 0]
    /\ sCreated = 0 /\ sQuits = 0 /\ sAbandoned = 0 /\ sLast = NoSearch
    /\ sIn = FALSE /\ sUsers = {}

\* The thread that runs run_crawler; the pool threads are 1..MaxW.
MainThread == 0

\* Lines 601 and 436-440: a pool that is started as soon as one category has
\* its URLs.
AfterCategory_StartsPool(c) == "start"

\* Lines 578-609: the collection loop takes the next category; the pool is
\* created after the last one.
AfterCategory(c) == IF c = Len(Cats) THEN "start" ELSE "collect"

\* Lines 436-440: _get_target_urls, called by run_crawler on its own thread,
\* calls the search function of the engine; _google_search and _bing_search
\* take the shared session (lines 217, 294) and hold it until they return.
SearchBegin ==
    /\ cpc = "collect" /\ ~sIn
    /\ sIn' = TRUE
    /\ sUsers' = IF UsesBrowser THEN sUsers \cup {MainThread} ELSE sUsers
    /\ UNCHANGED <<crawlerVars, engine, browser, search_driver, sCat, sQuery,
                   sUrls, sCount, sCreated, sQuits, sAbandoned, sLast,
                   nonRunVars>>

\* One turn of the query loop of _get_target_urls (lines 431-448) for the
\* category run_crawler is at (lines 578-601): the search of one query.  With
\* Google or Bing the search takes the session from _get_search_driver (an
\* exception of it leaves the search and is caught at line 446), loads the
\* page and passes the gate; an exception inside the search is caught there
\* and the URLs read so far are returned.  When the category has its URLs or
\* no query is left, run_crawler goes to the next category.
Search ==
    /\ cpc = "collect" /\ sIn
    /\ sIn' = FALSE /\ sUsers' = sUsers \ {MainThread}
    /\ \E gate \in GateResults, found \in 0..PagesWanted, fails \in BOOLEAN :
         LET c == Cats[sCat]
             g == IF UsesBrowser THEN GetSearchDriver(search_driver)
                  ELSE [driver |-> search_driver, checked |-> FALSE,
                        created |-> FALSE, raised |-> FALSE]
             gated == UsesBrowser /\ ~g.raised /\ ~fails
             outcome == IF g.raised THEN "error"
                        ELSE IF fails THEN "empty"
                        ELSE IF gated /\ gate = "false" THEN "abandoned"
                        ELSE "ok"
             got == IF g.raised \/ fails THEN 0
                    ELSE IF gated THEN SearchResult(gate, found)
                    ELSE found
             urls == IF sUrls + got > PagesWanted THEN PagesWanted ELSE sUrls + got
             catDone == urls >= PagesWanted \/ sQuery = NumQueries
         IN  /\ search_driver' = g.driver
             /\ sCreated' = sCreated + (IF g.created THEN 1 ELSE 0)
             /\ sCount' = [sCount EXCEPT ![c] = @ + 1]
             /\ sAbandoned' = sAbandoned + (IF outcome = "abandoned" THEN 1 ELSE 0)
             /\ sLast' = [cat |-> sCat, query |-> sQuery, had |-> search_driver,
                          checked |-> g.checked, created |-> g.created,
                          gates |-> IF gated THEN 1 ELSE 0,
                          outcome |-> outcome, got |-> got]
             /\ IF catDone
                THEN /\ urlCount' = [urlCount EXCEPT ![c] = urls]
                     /\ sCat' = sCat + 1 /\ sQuery' = 1 /\ sUrls' = 0
                     /\ cpc' = AfterCategory(sCat)
                ELSE /\ sQuery' = sQuery + 1 /\ sUrls' = urls
                     /\ UNCHANGED <<urlCount, sCat, cpc>>
    /\ UNCHANGED <<cW, cRetries, posix, killTime, reapTime, trace, onDisk, tasks,
                   skipped, completedCnt, stats, progress, counted, poolVars,
                   yielded, engine, browser, sQuits, nonRunVars>>

\* The browser of the session goes away between two searches (its window is
\* closed, it crashes).
SessionDies ==
    /\ cpc = "collect" /\ search_driver = "alive" /\ ~sIn
    /\ search_driver' = "dead"
    /\ UNCHANGED <<crawlerVars, engine, browser, sCat, sQuery, sUrls, sCount,
                   sCreated, sQuits, sAbandoned, sIn, sUsers, sLast, nonRunVars>>

NextRun == SearchBegin \/ Search \/ SessionDies \/ NextCrawler

SpecRun == InitRun /\ [][NextRun]_vars

----------------------------------------------------------------------------
(* The training runner: train_one_monitor (Training/train.py) and          *)
(* Trainer.__init__ + Trainer.train (deploy/webinject_train/train.py),     *)
(* which are the same statements in the same order.                        *)

\* The values of NUM_EPOCHS tried, and the unit indices of the checkpoint an
\* earlier process may have left at the canonical path.
Totals == {1, 12, MaxUnits}

InitialEpochs == {0, 9, MaxUnits - 1}

tHistVars == <<executed, loaded, canonWrites, copyWrites, entryTarget,
               filesAtStart, crashAt, doneBefore>>

tConfVars == <<numEpochs, saveInterval>>

InitTrain ==
    /\ tpc = "start"
    /\ numEpochs \in Totals
    /\ saveInterval \in 1..MaxSaveInterval
    /\ \E c \in {NoCkpt} \cup {Ckpt(e, NetAfter(e + 1)) : e \in InitialEpochs} :
          ckFiles = [NoFiles EXCEPT ![LatestPath] = c]
    /\ filesAtStart = ckFiles
    /\ net = FreshNet /\ start_epoch = 0 /\ epoch = 0
    /\ saveTo = LatestPath /\ executed = <<>> /\ loaded = NotLoaded
    /\ canonWrites = <<>> /\ copyWrites = <<>> /\ entryTarget = NoCkpt
    /\ crashAt = "none" /\ doneBefore = FALSE
    /\ OthersIdle /\ GateOff /\ SearchOff

\* load_checkpoint that leaves the scheduler as it is.
LoadCheckpoint_NoScheduler(f, cur) ==
    [epoch |-> f.epoch,
     net |-> [model |-> f.model, opt |-> f.opt, sched |-> cur.sched]]

\* load_checkpoint, lines 121-135: the state dicts of the file go into the
\* model, the optimizer and the scheduler (the runner always has a scheduler
\* and its state dict is never empty); the epoch of the file is returned.
LoadCheckpoint(f, cur) ==
    [epoch |-> f.epoch,
     net |-> [model |-> f.model, opt |-> f.opt, sched |-> f.sched]]

\* A resume that leaves out the unit after the checkpoint.
ResumePoint_SkipsOne(e) == e + 2

\* A resume that starts at the epoch of the checkpoint.
ResumePoint_SameEpoch(e) == e

\* Line 201: start_epoch += 1.
ResumePoint(e) == e + 1

\* Lines 194-201: Auto-Resume.  torch.load of a file that is not a whole
\* checkpoint raises and the process ends.
TrainResume ==
    /\ tpc = "start"
    /\ IF IsFile(LatestPath)
       THEN IF ckFiles[LatestPath].kind = "ckpt"
            THEN LET r == LoadCheckpoint(ckFiles[LatestPath], net)
                 IN  /\ net' = r.net
                     /\ start_epoch' = ResumePoint(r.epoch)
                     /\ loaded' = [path |-> LatestPath, epoch |-> r.epoch,
                                   found |-> TRUE, net |-> r.net]
                     /\ tpc' = "enter"
            ELSE /\ loaded' = [path |-> LatestPath, epoch |-> -1, found |-> TRUE,
                               net |-> net]
                 /\ tpc' = "raised"
                 /\ UNCHANGED <<net, start_epoch>>
       ELSE /\ start_epoch' = 0
            /\ tpc' = "enter"
            /\ UNCHANGED <<net, loaded>>
    /\ UNCHANGED <<tConfVars, ckFiles, epoch, saveTo, executed, canonWrites,
                   copyWrites, entryTarget, filesAtStart, crashAt, doneBefore, nonTrainVars>>

\* A runner that saves the checkpoint again when there is nothing to train.
TrainEnter_SavesOnSkip ==
    /\ tpc = "enter"
    /\ IF start_epoch >= numEpochs
       THEN /\ tpc' = "open" /\ epoch' = start_epoch - 1
       ELSE /\ tpc' = "loop" /\ epoch' = start_epoch
    /\ UNCHANGED <<tConfVars, ckFiles, net, start_epoch, saveTo, tHistVars,
                   nonTrainVars>>

\* Lines 203-211: the job is already complete, or the loop begins at
\* start_epoch.
TrainEnter ==
    /\ tpc = "enter"
    /\ IF start_epoch >= numEpochs
       THEN /\ tpc' = "done" /\ UNCHANGED epoch
       ELSE /\ tpc' = "loop" /\ epoch' = start_epoch
    /\ UNCHANGED <<tConfVars, ckFiles, net, start_epoch, saveTo, tHistVars,
                   nonTrainVars>>

\* A runner that saves after every unit.
SaveDue_EveryUnit(u) == TRUE

\* Line 256: (epoch + 1) % SAVE_INTERVAL == 0.
SaveDue(u) == (u + 1) % saveInterval = 0

\* Line 263: (epoch + 1) % 10 == 0.
CopyDue(u) == (u + 1) % COARSE_INTERVAL = 0

\* Lines 211-256: one turn of the loop up to the test of line 256.
TrainUnit ==
    /\ tpc = "loop" /\ epoch < numEpochs
    /\ net' = TrainedNet(net)
    /\ executed' = Append(executed, epoch)
    /\ IF SaveDue(epoch)
       THEN /\ tpc' = "open" /\ saveTo' = LatestPath /\ UNCHANGED epoch
       ELSE /\ tpc' = "loop" /\ epoch' = epoch + 1 /\ UNCHANGED saveTo
    /\ UNCHANGED <<tConfVars, ckFiles, start_epoch, loaded, canonWrites,
                   copyWrites, entryTarget, filesAtStart, crashAt, doneBefore, nonTrainVars>>

\* Lines 211 and 272: range(start_epoch, NUM_EPOCHS) is exhausted.
TrainLoopEnd ==
    /\ tpc = "loop" /\ epoch >= numEpochs
    /\ tpc' = "done"
    /\ UNCHANGED <<tConfVars, ckFiles, net, start_epoch, epoch, saveTo,
                   tHistVars, nonTrainVars>>

\* A save_checkpoint that writes the target file in place.
SaveFile_InPlace(p) == p

\* Line 105: tmp_path = path + ".tmp".
SaveFile(p) == TmpOf(p)

\* Line 106, torch.save opens the file: it exists and is not yet whole.
SaveOpen ==
    /\ tpc = "open"
    /\ entryTarget' = ckFiles[saveTo]
    /\ ckFiles' = [ckFiles EXCEPT ![SaveFile(saveTo)] = TornCkpt]
    /\ tpc' = "write"
    /\ UNCHANGED <<tConfVars, net, start_epoch, epoch, saveTo, executed, loaded,
                   canonWrites, copyWrites, filesAtStart, crashAt, doneBefore, nonTrainVars>>

\* Line 106, torch.save returns: the file holds the dict of lines 96-103.
SaveWrite ==
    /\ tpc = "write"
    /\ ckFiles' = [ckFiles EXCEPT ![SaveFile(saveTo)] = Ckpt(epoch, net)]
    /\ tpc' = "replace"
    /\ UNCHANGED <<tConfVars, net, start_epoch, epoch, saveTo, tHistVars,
                   nonTrainVars>>

\* Line 107: os.replace(tmp_path, path), one step of the file system.
SaveReplace ==
    /\ tpc = "replace"
    /\ ckFiles' = IF SaveFile(saveTo) = saveTo THEN ckFiles
                  ELSE [ckFiles EXCEPT ![saveTo] = ckFiles[SaveFile(saveTo)],
                                       ![SaveFile(saveTo)] = NoCkpt]
    /\ IF saveTo = LatestPath
       THEN /\ canonWrites' = Append(canonWrites, epoch)
            /\ UNCHANGED copyWrites
       ELSE /\ copyWrites' = Append(copyWrites, [n |-> saveTo.n, epoch |-> epoch])
            /\ UNCHANGED canonWrites
    /\ tpc' = "saved"
    /\ UNCHANGED <<tConfVars, net, start_epoch, epoch, saveTo, executed, loaded,
                   entryTarget, filesAtStart, crashAt, doneBefore, nonTrainVars>>

\* Lines 262-270: after the canonical checkpoint, the numbered copy when
\* epoch + 1 is a multiple of 10; then the next turn of the loop.
TrainAfterSave ==
    /\ tpc = "saved"
    /\ IF saveTo = LatestPath /\ CopyDue(epoch)
       THEN /\ saveTo' = EpochPath(epoch + 1) /\ tpc' = "open" /\ UNCHANGED epoch
       ELSE /\ epoch' = epoch + 1 /\ tpc' = "loop" /\ UNCHANGED saveTo
    /\ UNCHANGED <<tConfVars, ckFiles, net, start_epoch, tHistVars, nonTrainVars>>

TrainRunning == tpc \in {"start", "enter", "loop", "open", "write", "replace", "saved"}

\* The instance is reclaimed: the process dies where it is, the files stay.
TrainCrash ==
    /\ TrainRunning
    /\ crashAt' = tpc
    /\ tpc' = "crashed"
    /\ UNCHANGED <<tConfVars, ckFiles, net, start_epoch, epoch, saveTo, executed,
                   loaded, canonWrites, copyWrites, entryTarget, filesAtStart,
                   doneBefore, nonTrainVars>>

\* python train.py is started again (the restart loop of lines 12-20), after a
\* kill, an exception or a complete run.
TrainRestart ==
    /\ tpc \in {"crashed", "raised", "done"}
    /\ tpc' = "start"
    /\ net' = FreshNet /\ start_epoch' = 0 /\ epoch' = 0
    /\ saveTo' = LatestPath /\ executed' = <<>> /\ loaded' = NotLoaded
    /\ canonWrites' = <<>> /\ copyWrites' = <<>> /\ entryTarget' = NoCkpt
    /\ filesAtStart' = ckFiles /\ crashAt' = "none"
    /\ doneBefore' = (doneBefore \/ tpc = "done")
    /\ UNCHANGED <<tConfVars, ckFiles, nonTrainVars>>

NextTrain ==
    \/ TrainResume \/ TrainEnter \/ TrainUnit \/ TrainLoopEnd
    \/ SaveOpen \/ SaveWrite \/ SaveReplace \/ TrainAfterSave
    \/ TrainCrash \/ TrainRestart

SpecTrain == InitTrain /\ [][NextTrain]_vars

\* save_checkpoint and load_checkpoint alone: a unit index and a state blob
\* are saved to the canonical path, over nothing or over an older checkpoint,
\* and a new process loads the path.
InitRoundTrip ==
    /\ tpc = "open"
    /\ numEpochs = MaxUnits /\ saveInterval = 1
    /\ \E c \in {NoCkpt, Ckpt(MaxUnits, NetAfter(1))} :
          ckFiles = [NoFiles EXCEPT ![LatestPath] = c]
    /\ filesAtStart = ckFiles
    /\ net \in [model : 0..MaxBlob, opt : 0..MaxBlob, sched : 0..MaxBlob]
    /\ start_epoch = 0 /\ epoch \in 0..MaxBlob
    /\ saveTo = LatestPath /\ executed = <<>> /\ loaded = NotLoaded
    /\ canonWrites = <<>> /\ copyWrites = <<>> /\ entryTarget = NoCkpt
    /\ crashAt = "none" /\ doneBefore = FALSE
    /\ OthersIdle /\ GateOff /\ SearchOff

\* load_checkpoint(path, ...) in a process that has just built its model,
\* optimizer and scheduler.
RoundTripLoad ==
    /\ tpc = "saved"
    /\ LET r == LoadCheckpoint(ckFiles[saveTo], FreshNet)
       IN  loaded' = [path |-> saveTo, epoch |-> r.epoch, found |-> TRUE,
                      net |-> r.net]
    /\ tpc' = "loaded"
    /\ UNCHANGED <<tConfVars, ckFiles, net, start_epoch, epoch, saveTo, executed,
                   canonWrites, copyWrites, entryTarget, filesAtStart, crashAt,
                   doneBefore, nonTrainVars>>

NextRoundTrip == SaveOpen \/ SaveWrite \/ SaveReplace \/ RoundTripLoad

SpecRoundTrip == InitRoundTrip /\ [][NextRoundTrip]_vars

----------------------------------------------------------------------------
(* Claims about the driver (specification Spec)                            *)

PhaseIndex(p) == CHOOSE i \in 1..Len(PHASES) : PHASES[i] = p

NoRepeat(s) == \A i, j \in 1..Len(s) : s[i] = s[j] => i = j

IsPrefix(s, t) == Len(s) <= Len(t) /\ \A i \in 1..Len(s) : s[i] = t[i]

\* The run in progress (or just ended) and the run before it, with no
\* reset_state between the two.
TwoRuns == hadPrev /\ ~resetBetween /\ pc \in {"run", "exited"}

\* C1 as stated: over two runs with no reset_state between them, no phase body
\* is invoked more than once.
C1_InvokedAtMostOnce ==
    TwoRuns => NoRepeat(execSeq) /\ Range(execSeq) \cap prevExec = {}

\* C1, amended: over two runs with no reset_state between them (each run ends by
\* returning or by a raising body), every phase body runs to completion at most
\* once: within a run no body is invoked twice, and the only body of the first
\* run that the second run invokes again is the one that raised. If the first
\* run ended with all six phases completed, the second run invokes no body and
\* does not write the state file.
C1_IdempotentResume ==
    /\ NoRepeat(execSeq)
    /\ TwoRuns => /\ Range(execSeq) \cap prevExec \subseteq {prevFailed}
                  /\ prevAllDone => execSeq = <<>> /\ writes = 0

\* The second run has returned, with nothing to do, after a first run that
\* executed bodies and left all six phases completed.
C1_Witness ==
    /\ TwoRuns /\ prevAllDone /\ prevExec # {}
    /\ pc = "exited" /\ exitCode = 0

\* The phases a run has to execute: not completed in the loaded state.
Todo == ListOf(PhaseSet \ loadedC)

\* The phases a run has to execute: not completed in the loaded state and not
\* switched off.
TodoEnabled == ListOf({p \in PhaseSet \ loadedC : PhaseEnabled(p)})

\* C5 as stated: a run of the driver that returns has executed the bodies of
\* exactly the phases that were not completed in the loaded state, in the order
\* of PHASES.
C5_ExactlyNotCompleted ==
    (pc = "exited" /\ exitCode = 0) => execSeq = Todo

\* C5, amended: a run executes, in the order of PHASES, the bodies of the
\* phases that are neither completed in the loaded state nor switched off by
\* RUN_CRAWLER / RUN_SYNTH_GEN (a switched-off phase is marked without its
\* body): all of them when the run returns, a prefix of them when a body
\* raises; it executes no body of a phase that was completed.
C5_OrderedExecutionWithSkip ==
    pc \in {"run", "exited"} =>
        /\ IsPrefix(execSeq, TodoEnabled)
        /\ Range(execSeq) \cap loadedC = {}
        /\ (pc = "exited" /\ exitCode = 0) => execSeq = TodoEnabled

\* Only the second phase was completed: the first, then the third and the
\* following ones have executed and the run has returned.
C5_Witness ==
    /\ pc = "exited" /\ exitCode = 0
    /\ loadedC = {"phase1_synth"}
    /\ execSeq = << "phase0_crawl", "phase2_prompts", "phase3_history",
                    "phase4_render", "phase5_metadata" >>

Durable == LoadState(file).st

\* C6: when the body of phase k raises, the run ends there with a non-zero exit
\* status: no body of a later phase has run, no later phase was marked, k is
\* not completed (in memory or on disk), every phase marked before k is
\* completed in the state file; and the next run (same configuration, no
\* reset_state) executes the body of k first.
C6_PhaseFailureHalts ==
    /\ (pc = "exited" /\ failed # "none") =>
          /\ exitCode # 0
          /\ execSeq # <<>> /\ execSeq[Len(execSeq)] = failed
          /\ \A p \in Range(execSeq) : PhaseIndex(p) <= PhaseIndex(failed)
          /\ \A p \in markedRun : PhaseIndex(p) < PhaseIndex(failed)
          /\ ~IsCompleted(mem, failed) /\ ~IsCompleted(Durable, failed)
          /\ \A p \in markedRun \cup loadedC : IsCompleted(Durable, p)
          /\ \A p \in PhaseSet :
                PhaseIndex(p) < PhaseIndex(failed) => IsCompleted(Durable, p)
    /\ (TwoRuns /\ ~flipBetween /\ prevFailed # "none") =>
          /\ execSeq # <<>> => execSeq[1] = prevFailed
          /\ pc = "exited" => execSeq # <<>>

\* The body of phase2_prompts raised in the run before; this run has executed
\* it first and has gone on to the end.
C6_Witness ==
    /\ TwoRuns /\ ~flipBetween /\ prevFailed = "phase2_prompts"
    /\ pc = "exited" /\ exitCode = 0
    /\ Len(execSeq) = 4 /\ execSeq[1] = "phase2_prompts"

\* The phases whose function the current run has called and left.
Passed == {MainCalls[i] : i \in 1..(ph - 1)}

\* C7: a phase whose switch is off (and that was not completed) is marked
\* completed with the payload {"skipped": True}, in memory and in the state
\* file, without its body being run; and as long as reset_state is not called,
\* no later run executes its body, also with the switch turned on.
C7_DisabledIsSticky ==
    /\ pc \in {"run", "exited"} =>
          \A p \in Passed \ loadedC :
              ~PhaseEnabled(p) =>
                  /\ p \in skipRun /\ p \notin Range(execSeq)
                  /\ IsCompleted(mem, p) /\ mem.pd[p] = "skipped"
                  /\ IsCompleted(Durable, p) /\ Durable.pd[p] = "skipped"
    /\ \A p \in skippedEver :
          /\ p \notin Range(execSeq)
          /\ pc \in {"run", "exited"} /\ p \in Passed => IsCompleted(mem, p)

\* phase0_crawl was marked as skipped by an earlier run; RUN_CRAWLER is now on,
\* this run has gone past phase0_crawl and on to the end without executing it.
C7_Witness ==
    /\ hadPrev /\ "phase0_crawl" \in skippedEver /\ "phase0_crawl" \notin skipRun
    /\ runCrawler
    /\ pc = "exited" /\ exitCode = 0 /\ execSeq # <<>>

----------------------------------------------------------------------------
(* Claims about the state store (specification SpecStore)                  *)

\* C2: once mark_completed(state, p, data) has returned, a process killed at
\* any later instant and started again finds p completed in what load_state
\* returns (no reset_state in between).
C2_StateDurability ==
    pc = "ready" => \A p \in returned : IsCompleted(mem, p)

\* C3: after a kill in the middle of a write of the state file, load_state
\* returns the complete state of before the write or the complete state that
\* was being written, and no phase completed before the write is lost.
C3_NoTornWrite ==
    (crashW /\ pc = "ready") =>
        /\ mem = wPre \/ mem = wNew
        /\ Completed(wPre) \subseteq Completed(mem)

\* C4: load_state does not raise, and returns the empty state, when the state
\* file is absent or holds something that cannot be read or parsed.
C4_LoadNeverFails ==
    lastLoad.kind \in {"absent", "garbage", "binary"} =>
        ~lastLoad.raised /\ lastLoad.empty

\* C8: the completed set only grows. The dict of a live process never loses a
\* phase; without reset_state and without a kill inside a write, the state file
\* never loses a phase and a new process starts with every phase a complete
\* file has held; the list never holds a phase twice, also when mark_completed
\* is given a phase that is already in it.
C8_CompletedMonotone ==
    /\ pc \in {"ready", "writing"} =>
          /\ memHigh \subseteq Completed(mem)
          /\ NoRepeat(mem.cp)
    /\ file.kind = "object" => NoRepeat(file.st.cp)
    /\ (~tornSince /\ pc # "writing") =>
          /\ ~LoadState(file).raises \/ durableHigh = {}
          /\ durableHigh \subseteq Completed(Durable)
    /\ (~tornSince /\ pc = "ready") => durableHigh \subseteq Completed(mem)
    /\ (pc = "ready" /\ lastMark.present) =>
          Cardinality(Completed(mem)) = Len(mem.cp)

\* mark_completed was given a phase that was already in a list of two or more
\* and has returned; no write was ever cut, and the file holds what the dict holds.
C8_Witness ==
    /\ pc = "ready" /\ lastMark.present /\ lastMark.phase \in returned
    /\ Len(mem.cp) >= 2 /\ ~tornSince
    /\ durableHigh = Completed(mem) /\ file = SaveState(mem)

----------------------------------------------------------------------------
(* Claims about the crawler (specification SpecCrawler)                     *)

Done == {"ok", "fail", "exc"}

NumTasks == Len(tasks)

TasksOf(c) == {t \in 1..NumTasks : tasks[t][1] = c}

\* C9 (scheduler completeness): when run_crawler returns from a batch of N
\* pending tasks run by a pool of W threads, every one of the N futures is
\* resolved and was handed to the loop, the loop counted N completions, each
\* task was counted exactly once, as a success when it downloaded and as a
\* fail otherwise, and in every category, hence in all, success + fail is the
\* number of tasks plus the number of URLs skipped as already there (success
\* being the number of the category's URLs whose file was there or was
\* downloaded).
C9_SchedulerCompleteness ==
    cpc = "returned" =>
        /\ completedCnt = NumTasks
        /\ yielded = 1..NumTasks
        /\ \A t \in 1..NumTasks : fut[t] \in Done /\ counted[t] = 1
        /\ TotalOf(stats) = NumTasks + skipped
        /\ \A c \in CatSet :
              /\ stats[c].success + stats[c].fail = urlCount[c]
              /\ stats[c].success = CategorySkipped(c)
              /\ stats[c].fail = Cardinality({t \in TasksOf(c) : fut[t] # "ok"})

\* A batch of at least two tasks in a pool smaller than the batch, with a URL
\* skipped, a download that worked, one that failed and returned.
C9_Witness ==
    /\ cpc = "returned" /\ NumTasks >= 2 /\ cW < NumTasks /\ skipped >= 1
    /\ \E t, u \in 1..NumTasks : fut[t] = "ok" /\ fut[u] = "exc"
    /\ completedCnt = NumTasks

Running == {t \in TaskIds : fut[t] = "running"}

\* C10 (bounded concurrency): at every instant of a batch at most
\* CONCURRENT_DOWNLOADS tasks are in a download attempt, and whenever a task
\* is pending and one of the pool's threads is free, that thread can start it
\* at once, whatever the other threads are doing.
C10_BoundedConcurrency ==
    /\ Cardinality(Running) <= cW
    /\ Cardinality({w \in PoolIds : worker[w].task # 0}) <= cW
    /\ Running = {worker[w].task : w \in {v \in PoolIds : worker[v].task # 0}}
    /\ \A w \in 1..cW :
          (cpc = "pool" /\ queue # <<>> /\ worker[w].at = "idle")
              => ENABLED WorkerTake(w)

\* Two threads, three tasks: the third task runs while the first still runs
\* and the second is over.
C10_Witness ==
    /\ cW = 2 /\ NumTasks = 3
    /\ fut[1] = "running" /\ fut[3] = "running" /\ fut[2] \in Done

\* The task u has failed, or an attempt of its download has.
Failing(u) ==
    \/ fut[u] \in {"fail", "exc"}
    \/ \E w \in PoolIds :
          /\ worker[w].task = u
          /\ \/ worker[w].attempt > 1
             \/ worker[w].at \in {"kill", "sleep"}
             \/ worker[w].res = "false"

\* The task t is where the pool keeps a task that is not over: submitted and
\* waiting in the queue of a live pool, or run by one of its threads.
StillServed(t) ==
    /\ cpc = "pool"
    /\ fut[t] = "pending" => t \in Range(queue)
    /\ fut[t] = "running" => \E w \in PoolWorkers : worker[w].task = t

\* C11 (failure isolation): once a task has failed, timed out, run out of
\* attempts or raised, every sibling task that is not over is still in the
\* queue of the running pool or run by one of its threads (the batch did not
\* abort and the sibling was not cancelled), so that it goes on to its own
\* outcome; on return every task is resolved.
C11_FailureIsolation ==
    /\ \A u, t \in 1..NumTasks :
          (u # t /\ Failing(u) /\ fut[t] \notin Done) => StillServed(t)
    /\ cpc = "returned" => \A t \in 1..NumTasks : fut[t] \in Done

\* The same, where the platform is Windows.
C11_OnWindows == posix \/ C11_FailureIsolation

----------------------------------------------------------------------------
(* Claims about download_page (specification SpecDownload, traced calls)    *)

\* The pool threads inside a call of download_page.
InCall == {w \in PoolIds : worker[w].task # 0}

\* The one task of the batch was handed to the loop as failed and counted so.
CountedFailed ==
    (1 \in yielded /\ fut[1] = "fail") =>
        /\ stats[tasks[1][1]].fail = 1 /\ stats[tasks[1][1]].success = 0
        /\ counted[1] = 1

\* C12 (success iff an attempt succeeds): download_page returns True exactly
\* when one of its attempts, the okAt-th with okAt <= MAX_RETRIES, ended within
\* the timeout with exit code 0 and an output file of more than 100 bytes; it
\* returns at that attempt, having launched okAt processes and no further one,
\* none of them left alive; when it returns False the task is counted failed.
C12_TrueIffAttemptSucceeds ==
    /\ \A w \in InCall :
          /\ worker[w].at = "ret" =>
                /\ worker[w].res \in {"true", "false"}
                /\ worker[w].res = "true" <=> worker[w].okAt # 0
          /\ worker[w].okAt # 0 =>
                /\ worker[w].at = "ret" /\ worker[w].res = "true"
                /\ worker[w].okAt <= cRetries
                /\ worker[w].launches = worker[w].okAt
                /\ worker[w].live = 0
                /\ tasks[worker[w].task] \in onDisk
    /\ \A t \in 1..NumTasks : fut[t] = "ok" => tasks[t] \in onDisk
    /\ CountedFailed

\* download_page is about to return True from its second attempt of three, the
\* first having timed out.
C12_Witness ==
    /\ cRetries = 3
    /\ \E w \in InCall :
          /\ worker[w].at = "ret" /\ worker[w].res = "true"
          /\ worker[w].okAt = 2 /\ worker[w].modes = {"timeout"}

\* The attempts of the call of thread w so far all failed by a timeout, a bad
\* exit code or a missing or short output file.
OnlyTransientFailures(w) ==
    /\ worker[w].modes # {}
    /\ worker[w].modes \subseteq {"timeout", "exit", "badfile"}
    /\ worker[w].okAt = 0

\* The call of thread w is over: download_page returns, or its process is no more.
CallOver(w) == worker[w].at = "ret" \/ cpc = "killed"

\* C13 (bounded retries): a call of download_page whose every attempt fails by
\* timeout, bad exit code or bad output file never launches more than
\* MAX_RETRIES processes nor sleeps after the last attempt, and when it is over
\* it has launched exactly MAX_RETRIES processes, slept exactly
\* MAX_RETRIES - 1 times and returns False.
C13_BoundedRetries ==
    \A w \in InCall :
        /\ worker[w].launches <= cRetries
        /\ worker[w].at = "sleep" => worker[w].attempt < cRetries
        /\ (OnlyTransientFailures(w) /\ CallOver(w)) =>
              /\ worker[w].launches = cRetries
              /\ worker[w].sleeps = cRetries - 1
              /\ worker[w].at = "ret" /\ worker[w].res = "false"

\* The same, where the platform is Windows.
C13_OnWindows == posix \/ C13_BoundedRetries

\* C15 (executable not found is not retried): when Popen raises
\* FileNotFoundError, download_page returns False at once, whatever
\* MAX_RETRIES: the launch that raised is its last, no sleep follows it, and
\* where the executable is missing from the first attempt, the call made
\* exactly one launch attempt and no sleep; the batch goes on and the task is
\* counted failed.
C15_NotFoundNotRetried ==
    /\ \A w \in InCall :
          "notfound" \in worker[w].modes =>
              /\ worker[w].at = "ret" /\ worker[w].res = "false"
              /\ cpc = "pool"
              /\ worker[w].launches = worker[w].attempt
              /\ worker[w].sleeps = worker[w].attempt - 1
              /\ worker[w].modes = {"notfound"} =>
                    worker[w].launches = 1 /\ worker[w].sleeps = 0
    /\ (1 \in yielded /\ fut[1] = "fail") =>
          stats[tasks[1][1]].fail = 1 /\ completedCnt = 1

\* The executable is missing, MAX_RETRIES is 3: download_page returns after
\* one launch attempt.
C15_Witness ==
    /\ cRetries = 3
    /\ \E w \in InCall :
          /\ worker[w].modes = {"notfound"} /\ worker[w].at = "ret"
          /\ worker[w].launches = 1 /\ worker[w].sleeps = 0

\* C16 (timeout handling order): a call never has two processes alive; a
\* process that timed out is killed and reaped before the call sleeps,
\* launches again or returns; every attempt after the first is launched after
\* one more sleep of REQUEST_DELAY; and the kill ends the timed-out process and
\* its descendants only, so that the crawler goes on to that sleep and that
\* attempt.
C16_TimeoutHandlingOrder ==
    /\ \A w \in InCall :
          /\ worker[w].live <= 1
          /\ worker[w].at \in {"launch", "sleep", "ret"} => worker[w].live = 0
          /\ worker[w].at \in {"launch", "wait", "kill"} =>
                worker[w].sleeps = worker[w].attempt - 1
    /\ cpc # "killed"

\* The same, where the platform is Windows.
C16_OnWindows == posix \/ C16_TimeoutHandlingOrder

\* The seconds an attempt that timed out took, kill and reaping included.
Grace == KILL_TIMEOUT + REAP_TIMEOUT

\* C18 (deadline enforcement): an attempt whose process does not end by itself
\* is over DOWNLOAD_TIMEOUT seconds after its launch plus at most the 10 s of
\* the kill command and the 5 s of the reaping wait.
C18_DeadlineEnforcement ==
    \A w \in InCall :
        /\ worker[w].el <= DOWNLOAD_TIMEOUT + Grace
        /\ worker[w].at = "kill" => worker[w].el = DOWNLOAD_TIMEOUT
        /\ (worker[w].el # 0 /\ worker[w].at # "kill") =>
              /\ worker[w].live = 0
              /\ worker[w].el >= DOWNLOAD_TIMEOUT

\* On Windows, an attempt timed out, the kill command and the reaping wait took
\* all the time they are allowed, and the call is about to sleep.
C18_Witness ==
    /\ ~posix
    /\ \E w \in InCall :
          /\ worker[w].at = "sleep" /\ "timeout" \in worker[w].modes
          /\ worker[w].el = DOWNLOAD_TIMEOUT + Grace

----------------------------------------------------------------------------
(* Termination of run_crawler (specification SpecCrawlerLive)               *)

\* C17 (scheduler termination): run_crawler eventually returns, every task
\* resolved, whatever the external processes do.
C17_SchedulerTermination ==
    <>(cpc = "returned" /\ \A t \in 1..NumTasks : fut[t] \in Done)

\* The same, where the platform is Windows.
C17_OnWindows == posix \/ C17_SchedulerTermination

----------------------------------------------------------------------------
(* The example batch (specification SpecScenario)                           *)

\* The attempts the example expects of a task.
ExpectedAttempts(t) == IF t \in AlwaysFail THEN 2 ELSE 1

\* C14 (example scenario): with five tasks, two pool threads, MAX_RETRIES = 2,
\* tasks 2 and 4 failing at every attempt and the others succeeding at the
\* first, under every interleaving: no download launches more processes than
\* expected, the download of task 2 or 4 returns False after exactly 2
\* attempts, that of another task True after exactly 1, and run_crawler
\* returns with 3 successes and 2 failures in all.
C14_ExampleScenario ==
    /\ \A w \in InCall :
          /\ worker[w].launches <= ExpectedAttempts(worker[w].task)
          /\ worker[w].at = "ret" =>
                /\ worker[w].attempt = ExpectedAttempts(worker[w].task)
                /\ worker[w].launches = ExpectedAttempts(worker[w].task)
                /\ worker[w].res = "false" <=> worker[w].task \in AlwaysFail
    /\ cpc = "returned" =>
          /\ NumTasks = 5
          /\ SumOver([c \in CatSet |-> stats[c].success], 1) = 3
          /\ SumOver([c \in CatSet |-> stats[c].fail], 1) = 2
          /\ \A t \in 1..NumTasks : fut[t] = "fail" <=> t \in AlwaysFail
          /\ \A t \in 1..NumTasks : fut[t] = "ok" <=> t \notin AlwaysFail

\* The example batch has returned, with its tally.
C14_Witness ==
    /\ cpc = "returned" /\ NumTasks = 5 /\ completedCnt = 5
    /\ TotalOf(stats) = 5
    /\ fut[2] = "fail" /\ fut[4] = "fail" /\ fut[5] = "ok"

----------------------------------------------------------------------------
(* Claims about _wait_for_captcha (specification SpecGate)                  *)

\* C19 (gate fast path): when the first evaluation of the predicate returns
\* False, _wait_for_captcha has returned True, having slept no second, read no
\* clock and evaluated the predicate that once only.
C19_GateFastPath ==
    gFirst = "false" =>
        /\ gpc = "done" /\ gRes = "true"
        /\ gSlept = 0 /\ gElapsed = 0 /\ gEvals = 1

\* The predicate was false at once and the gate returned.
C19_Witness == gFirst = "false" /\ gpc = "done" /\ gRes = "true" /\ gEvals = 1

\* What C20 says of every state of a call.
GateOutcome ==
    /\ gSlept <= GateTimeout + GATE_POLL
    /\ gpc = "done" =>
          /\ gRes \in {"true", "false"}
          /\ gRes = "true" <=> gSawFalse
          /\ gRes = "false" <=> (~gSawFalse /\ gElapsed > GateTimeout)
    /\ gpc # "done" => (gRes = "none" /\ ~gSawFalse)

----------------------------------------------------------------------------
(* The example gate (specification SpecGateScenario)                        *)

\* C21 (gate scenario): with timeout = 60 s and a predicate that is True for
\* n polls of the loop, 2 s apart, and False afterwards, the gate returns True
\* having slept n polling intervals: 6 s for the 3 polls of the example, the
\* clock the gate reads staying far below the timeout (under a quarter of it).
C21_GateScenario ==
    /\ gSlept <= GATE_POLL * gPlan.n
    /\ gpc = "done" =>
          /\ gRes = "true"
          /\ gSlept = GATE_POLL * gPlan.n
          /\ gPlan.n = 3 => (gSlept = 6 /\ 4 * gElapsed < GateTimeout)
          /\ gElapsed <= gSlept + gEvals - 1

\* The predicate was True for 3 polls and the gate returned True after 6 s.
C21_Witness ==
    /\ gpc = "done" /\ gRes = "true" /\ gPlan.n = 3 /\ GateTimeout = 60
    /\ gSlept = 6 /\ gElapsed = 6

----------------------------------------------------------------------------
(* Claims about the training runner (SpecTrain, SpecRoundTrip)             *)

\* Where the process is, or was when it was killed.
tAt == IF tpc = "crashed" THEN crashAt ELSE tpc

\* The process is past the Auto-Resume of lines 194-201.
Resumed == tAt \in {"enter", "loop", "open", "write", "replace", "saved", "done"}

\* The process is, or was killed, inside save_checkpoint(p, ...) after
\* torch.save began and before os.replace.
InsideSave(p) == tAt \in {"write", "replace"} /\ saveTo = p

\* C22 (atomic checkpoint): while save_checkpoint of the canonical path is
\* between the beginning of torch.save and os.replace, and after a kill at any
\* of these instants, the canonical path holds what it held when the call
\* began (the old whole checkpoint, or nothing); the canonical path never
\* holds a file that is not a whole checkpoint; what a process loads at
\* startup is the canonical path, never a .tmp path, and the load succeeds.
C22_AtomicCheckpoint ==
    /\ InsideSave(LatestPath) => ckFiles[LatestPath] = entryTarget
    /\ ckFiles[LatestPath].kind \in {"absent", "ckpt"}
    /\ loaded.found => /\ loaded.path = LatestPath
                       /\ loaded.epoch = filesAtStart[LatestPath].epoch
                       /\ tpc # "raised"

\* A process was killed after the .tmp file was written and before os.replace;
\* the next process found the .tmp file there and loaded the old checkpoint.
C22_Witness ==
    /\ tpc = "enter" /\ loaded.found
    /\ ckFiles[TmpOf(LatestPath)].kind = "ckpt"
    /\ ckFiles[LatestPath].kind = "ckpt"
    /\ ckFiles[TmpOf(LatestPath)].epoch > ckFiles[LatestPath].epoch
    /\ loaded.epoch = ckFiles[LatestPath].epoch

C24_ResumePoint ==
    /\ Resumed =>
          start_epoch = IF filesAtStart[LatestPath].kind = "ckpt"
                        THEN filesAtStart[LatestPath].epoch + 1 ELSE 0
    /\ \A i \in 1..Len(executed) : executed[i] = start_epoch + i - 1
    /\ (tpc = "done" /\ start_epoch < numEpochs) =>
          Len(executed) = numEpochs - start_epoch
    /\ (filesAtStart[LatestPath] = Ckpt(9, NetAfter(10)) /\ numEpochs = 20
          /\ executed # <<>>) => executed[1] = 10

C24_Witness ==
    /\ tpc = "done" /\ numEpochs = 20
    /\ filesAtStart[LatestPath] = Ckpt(9, NetAfter(10))
    /\ executed = [i \in 1..10 |-> 9 + i]

\* C25 (short-circuit): a process that loaded at startup a checkpoint whose
\* unit index plus one is at least NUM_EPOCHS executes no unit, begins no
\* save_checkpoint and leaves every file of the directory as it found it.
C25_ShortCircuit ==
    (loaded.found /\ loaded.epoch + 1 >= numEpochs) =>
        /\ tAt \in {"enter", "done"}
        /\ executed = <<>> /\ canonWrites = <<>> /\ copyWrites = <<>>
        /\ ckFiles = filesAtStart

C25_Witness ==
    /\ tpc = "done" /\ loaded.found /\ loaded.epoch + 1 > numEpochs
    /\ executed = <<>> /\ ckFiles = filesAtStart
    /\ ckFiles[LatestPath].kind = "ckpt"

\* The turn of the loop for unit u is past the point where the canonical
\* checkpoint is written, if it is written at all.
CanonStepOver(u) ==
    \/ u < epoch
    \/ tAt = "saved"
    \/ tAt \in {"open", "write", "replace"} /\ saveTo # LatestPath

CanonExpected(u) == (u + 1) % saveInterval = 0 /\ CanonStepOver(u)

\* C26 (save cadence): the units whose checkpoint this process put at the
\* canonical path are, in order, the executed units u with (u + 1) mod
\* SAVE_INTERVAL = 0 (the unit in progress counts once its os.replace is
\* done); the canonical path changes at no other point, and after a write it
\* holds the checkpoint of the last such unit alone.
C26_SaveCadence ==
    /\ canonWrites = SelectSeq(executed, CanonExpected)
    /\ canonWrites = <<>> => ckFiles[LatestPath] = filesAtStart[LatestPath]
    /\ canonWrites # <<>> =>
          LET u == canonWrites[Len(canonWrites)]
          IN  ckFiles[LatestPath] = Ckpt(u, NetAfter(u + 1))

C26_Witness ==
    /\ tpc = "done" /\ saveInterval = 3 /\ numEpochs = 12
    /\ executed = [i \in 1..12 |-> i - 1]
    /\ canonWrites = <<2, 5, 8, 11>>
    /\ ckFiles[LatestPath].epoch = 11

\* The turn of the loop for unit u is over.
TurnOver(u) == u < epoch

\* The numbered copy of unit u is in place.
CopyKept(u) ==
    /\ \E j \in 1..Len(copyWrites) : copyWrites[j] = [n |-> u + 1, epoch |-> u]
    /\ ckFiles[EpochPath(u + 1)].kind = "ckpt"
    /\ ckFiles[EpochPath(u + 1)].epoch = u

\* C27 (historical copies): whatever SAVE_INTERVAL is, once the turn of the
\* loop for a unit u with (u + 1) a multiple of 10 is over, the numbered copy
\* of u is in place.
C27_HistoricalCopies ==
    \A i \in 1..Len(executed) :
        ((executed[i] + 1) % COARSE_INTERVAL = 0 /\ TurnOver(executed[i]))
            => CopyKept(executed[i])

\* The same when SAVE_INTERVAL divides 10, and then no numbered copy is ever
\* written twice.
C27_WhenDividing ==
    /\ COARSE_INTERVAL % saveInterval = 0 => C27_HistoricalCopies
    /\ \A i, j \in 1..Len(copyWrites) : copyWrites[i].n = copyWrites[j].n => i = j
    /\ \A n \in CopyNumbers :
          filesAtStart[EpochPath(n)].kind = "ckpt" =>
             ckFiles[EpochPath(n)] = filesAtStart[EpochPath(n)]

----------------------------------------------------------------------------
(* Claims about the searches of run_crawler and their session (SpecRun,    *)
(* SpecCrawler)                                                            *)

\* The rules of _get_search_driver: no session before the first search that
\* uses a browser, a session found is checked before it is used again and
\* replaced when it does not answer.
SessionRules ==
    /\ (\A c \in CatSet : sCount[c] = 0) => (sCreated = 0 /\ search_driver = "none")
    /\ ~UsesBrowser => sCreated = 0
    /\ sLast.had # "none" => sLast.checked
    /\ sLast.had = "dead" => sLast.created
    /\ sLast.had = "alive" => ~sLast.created

\* run_crawler has returned with no session left, after one teardown if a
\* session was ever started.
TornDownOnce ==
    /\ search_driver = "none"
    /\ sQuits = IF sCreated > 0 THEN 1 ELSE 0

\* C28 (interactive session lifecycle): the search session is created only by
\* the first search that needs it, is checked before each reuse and created
\* again when dead, and when run_crawler has returned, by any of its return
\* paths, the session has been torn down exactly once.
C28_SessionLifecycle ==
    /\ SessionRules
    /\ cpc = "returned" => TornDownOnce

\* The same for the return path that follows the downloads.
C28_OnTaskPath ==
    /\ SessionRules
    /\ (cpc = "returned" /\ tasks # <<>>) => TornDownOnce

\* C29 (progress signal): the progress reports printed so far are 1, 2, ...,
\* one for each future the as_completed loop has handled, whatever its
\* outcome; when run_crawler returns they are 1..N for the N tasks.
C29_ProgressSignal ==
    /\ progress = [k \in 1..Cardinality(yielded) |-> k]
    /\ cpc = "returned" => Len(progress) = Len(tasks)

\* The same as long as no future handled holds an exception.
C29_WithoutExceptions ==
    (\A t \in yielded : fut[t] # "exc") => C29_ProgressSignal

\* C30 (gate timeout is abandoned, not fatal): a search whose gate returned
\* False called the gate once and returned no URL; the query loop went on to
\* the next query, or to the next category after the last query; once the
\* collection is over every category has had all its queries searched or has
\* its URLs; no download attempt is made before the collection is over and
\* MAX_RETRIES is what it was.
C30_GateTimeoutAbandoned ==
    /\ sLast.outcome = "abandoned" =>
          /\ sLast.got = 0 /\ sLast.gates = 1
          /\ cpc = "collect" =>
                IF sLast.query = NumQueries
                THEN sCat = sLast.cat + 1 /\ sQuery = 1
                ELSE sCat = sLast.cat /\ sQuery = sLast.query + 1
          /\ cpc # "collect" => (sLast.cat = Len(Cats) /\ sLast.query = NumQueries)
    /\ cpc # "collect" =>
          \A c \in CatSet : sCount[c] = NumQueries \/ urlCount[c] >= PagesWanted
    /\ cpc \in {"collect", "start"} => \A w \in PoolIds : worker[w] = IdleWorker
    /\ cRetries = MAX_RETRIES

\* The first query of the first category was abandoned at the gate, the second
\* query and the next category gave their URLs, and a download is at its last
\* attempt.
C30_Witness ==
    /\ cpc = "pool" /\ sAbandoned = 1
    /\ sCount[Cats[1]] = 2 /\ sCount[Cats[2]] = 1
    /\ urlCount[Cats[1]] = 1 /\ urlCount[Cats[2]] = 1
    /\ \E w \in PoolIds : worker[w].attempt = MAX_RETRIES

----------------------------------------------------------------------------
(* More claims about the training runner (SpecTrain)                       *)

\* C31 (historical file naming): a numbered checkpoint file whose name carries
\* n holds a checkpoint whose stored epoch is n, so that a resume from it
\* continues at unit n + 1.
C31_HistoricalNaming ==
    \A n \in CopyNumbers :
        ckFiles[EpochPath(n)].kind = "ckpt" =>
            /\ ckFiles[EpochPath(n)].epoch = n
            /\ ResumePoint(ckFiles[EpochPath(n)].epoch) = n + 1

\* C31 as the code has it: the name of a numbered file counts the units
\* completed; the epoch stored in the file named n is n - 1, the index of the
\* last of them, and a resume from it continues at unit n.
C31_NameIsCount ==
    \A n \in CopyNumbers :
        ckFiles[EpochPath(n)].kind = "ckpt" =>
            /\ ckFiles[EpochPath(n)].epoch = n - 1
            /\ ResumePoint(ckFiles[EpochPath(n)].epoch) = n

C31_Witness ==
    /\ tpc = "done"
    /\ ckFiles[EpochPath(10)].kind = "ckpt" /\ ckFiles[EpochPath(10)].epoch = 9
    /\ ckFiles[LatestPath].kind = "ckpt" /\ ckFiles[LatestPath].epoch > 9

\* The unit index stored at the canonical path, -1 when there is no checkpoint.
CanonEpoch ==
    IF ckFiles[LatestPath].kind = "ckpt" THEN ckFiles[LatestPath].epoch ELSE -1

\* The live model has had every unit below the next one applied once, in
\* order, by this process or by the processes whose checkpoint it loaded.
LineageWhole ==
    /\ Resumed => net = NetAfter(start_epoch + Len(executed))
    /\ ckFiles[LatestPath].kind = "ckpt" =>
          ckFiles[LatestPath] = Ckpt(CanonEpoch, NetAfter(CanonEpoch + 1))
    /\ tpc = "done" => start_epoch + Len(executed) >= numEpochs

\* C34 (checkpoint progress under crashes): over every sequence of kills, at
\* any instant, and restarts, the unit index stored at the canonical path never
\* decreases, and the runner skips no unit: the state it trains and saves has
\* had every unit before the next one, and when it reports the job done every
\* unit of 0..NUM_EPOCHS-1 has been run.
C34_ProgressUnderCrashes ==
    /\ [](LineageWhole)
    /\ [][CanonEpoch' >= CanonEpoch]_vars

\* A process was killed in the middle of the save of a numbered copy, and a
\* later process trained the remaining units and reported the job done.
C34_Witness ==
    /\ tpc = "done" /\ executed # <<>> /\ start_epoch > 0
    /\ ckFiles[TmpOf(EpochPath(COARSE_INTERVAL))].kind = "torn"

\* C35 (done is stable): a process started after the runner has reported the
\* job done executes no unit, whatever SAVE_INTERVAL and NUM_EPOCHS are.
C35_DoneIsStable == doneBefore => executed = <<>>

\* The same where NUM_EPOCHS is a multiple of SAVE_INTERVAL.
C35_WhenDividing == numEpochs % saveInterval = 0 => C35_DoneIsStable

\* C33 (kill scope): the kill after a timeout ends the process it was given and
\* its descendants only; the pipeline process is alive after it, and so are
\* the downloads of the sibling tasks.
C33_KillScope ==
    /\ cpc \in {"start", "pool", "returned"}
    /\ \A w \in PoolIds : worker[w].at = "kill" => cpc = "pool"

\* The same, where the platform is Windows.
C33_OnWindows == posix \/ C33_KillScope


----------------------------------------------------------------------------
(* The state file as any parsable text (SpecLoaded)                        *)

\* JSON objects that lack one of the two keys, or both (the empty object).
MalformedStates ==
    {[hasCP |-> c, hasPD |-> d, cp |-> IF c THEN <<PHASES[1]>> ELSE <<>>,
      pd |-> NoData] : c \in BOOLEAN, d \in BOOLEAN} \ {[hasCP |-> TRUE,
      hasPD |-> TRUE, cp |-> <<PHASES[1]>>, pd |-> NoData]}

\* The contents json.load accepts: an object with both keys, an object
\* without one of them, JSON that is not an object.
ParsableFiles ==
    {NonObjectFile}
    \cup {ObjectFile(st) : st \in MalformedStates}
    \cup {ObjectFile(FullState(S)) : S \in SUBSET StorePhases}

InitLoaded ==
    /\ file \in ParsableFiles
    /\ mem = NoState /\ pc = "dead"
    /\ DriverIdle /\ CrawlerOff
    /\ returned = {} /\ wPre = EmptyState /\ wNew = EmptyState /\ wPhase = "none"
    /\ crashW = FALSE /\ tornSince = FALSE /\ memHigh = {}
    /\ durableHigh = IF LoadState(file).raises THEN {} ELSE Completed(LoadState(file).st)
    /\ lastLoad = [kind |-> "none", raised |-> FALSE, empty |-> FALSE]
    /\ lastMark = [phase |-> "none", present |-> FALSE]

SpecLoaded == InitLoaded /\ [][NextStore]_vars

\* C39: whatever parsable text the state file holds, load_state returns, and
\* the state it returns has the list completed_phases and the mapping
\* phase_data, so that no mark_completed (and no is_completed) on it raises.
C39_LoadedWellFormed ==
    /\ lastLoad.kind \in {"object", "nonobject"} => ~lastLoad.raised
    /\ pc \in {"ready", "writing"} => mem.hasCP /\ mem.hasPD

\* With the files the program itself has written, and with no file, the state
\* in use has both keys.
C39_OwnFiles ==
    pc \in {"ready", "writing"} => mem.hasCP /\ mem.hasPD

----------------------------------------------------------------------------
(* The users of the browser session (SpecRun)                              *)

BusyWorkers == {w \in PoolIds : worker[w] # IdleWorker}

\* C32: the shared session has one user at a time.  The searches run one after
\* the other on the thread of run_crawler and are all over before the pool
\* exists; no pool thread is ever inside a call that uses the session.
C32_SingleUser ==
    /\ Cardinality(sUsers) <= 1 /\ sUsers \subseteq {MainThread}
    /\ sUsers # {} => sIn
    /\ sIn => cpc = "collect" /\ BusyWorkers = {} /\ queue = <<>>
    /\ cpc \in {"start", "pool", "returned", "killed"} =>
          /\ ~sIn /\ sUsers = {}
          /\ sCat > Len(Cats)
          /\ \A c \in CatSet : sCount[c] >= 1
    /\ BusyWorkers # {} => cpc \in {"pool", "killed"}

C32_Witness ==
    /\ cpc = "pool" /\ BusyWorkers # {}
    /\ sCreated >= 1 /\ search_driver = "alive"
    /\ \A c \in CatSet : sCount[c] = NumQueries

----------------------------------------------------------------------------
(* The two implementations of the runner, on the same inputs (SpecEquiv)   *)
(* train_one_monitor (Training/train.py) and Trainer (deploy/.../train.py) *)

\* The canonical checkpoints a runner can find: none (-1), or one written by
\* a runner with any NUM_EPOCHS at any unit.
FoundEpochs == -1..MaxUnits

EquivInputs ==
    [ck : FoundEpochs, total : Totals, interval : 1..MaxSaveInterval,
     data : BOOLEAN]

\* A checkpoint write: the path (the canonical one, n = 0, or the numbered
\* copy n) and the epoch stored.
WriteOf(n, e) == [n |-> n, epoch |-> e]

\* Training/train.py lines 256-270: the checkpoints train_one_monitor writes
\* after unit e.
FnSaves(e, si) ==
    IF (e + 1) % si = 0
    THEN <<WriteOf(0, e)>>
         \o (IF (e + 1) % 10 = 0 THEN <<WriteOf(e + 1, e)>> ELSE <<>>)
    ELSE <<>>

\* train_one_monitor, one step.
\*   entry   lines 146-172: returns when the LMDB is missing or empty
\*   resume  lines 194-201
\*   check   lines 203-211
\*   loop    lines 211-253: one epoch
\*   save    lines 255-272
FnStep(r, in) ==
    CASE r.at = "entry" ->
           [r EXCEPT !.at = IF in.data THEN "resume" ELSE "ret"]
      [] r.at = "resume" ->
           IF in.ck >= 0
           THEN [r EXCEPT !.at = "check", !.start = in.ck + 1, !.loads = @ + 1]
           ELSE [r EXCEPT !.at = "check"]
      [] r.at = "check" ->
           IF r.start >= in.total THEN [r EXCEPT !.at = "ret"]
           ELSE [r EXCEPT !.at = "loop", !.epoch = r.start]
      [] r.at = "loop" ->
           [r EXCEPT !.at = "save", !.units = Append(@, r.epoch)]
      [] r.at = "save" ->
           [r EXCEPT !.writes = @ \o FnSaves(r.epoch, in.interval),
                     !.epoch = IF r.epoch + 1 < in.total THEN @ + 1 ELSE @,
                     !.at = IF r.epoch + 1 < in.total THEN "loop" ELSE "ret"]
      [] OTHER -> r

\* A Trainer that resumes at the epoch of the checkpoint.
ResumeFromCheckpoint_SameEpoch(e) == e

\* deploy train.py line 205: self.start_epoch = self._load_checkpoint(...) + 1
ResumeFromCheckpoint(e) == e + 1

\* deploy train.py lines 287-296: the checkpoints Trainer.train writes after
\* unit e.
TrSaves(e, si) ==
    IF (e + 1) % si = 0
    THEN IF (e + 1) % 10 = 0
         THEN <<WriteOf(0, e), WriteOf(e + 1, e)>>
         ELSE <<WriteOf(0, e)>>
    ELSE <<>>

\* Trainer(...).train(), one step.
\*   entry   __init__, lines 68-90: the dataloader (None without data), the
\*           model, the optimizer, the scheduler
\*   resume  __init__, line 93 and lines 200-205: with or without data
\*   check   train, lines 250-264
\*   loop    train, lines 270-284 and _train_one_epoch
\*   save    train, lines 286-298
TrStep(r, in) ==
    CASE r.at = "entry" -> [r EXCEPT !.at = "resume"]
      [] r.at = "resume" ->
           IF in.ck >= 0
           THEN [r EXCEPT !.at = "check", !.loads = @ + 1,
                          !.start = ResumeFromCheckpoint(in.ck)]
           ELSE [r EXCEPT !.at = "check"]
      [] r.at = "check" ->
           IF ~in.data THEN [r EXCEPT !.at = "ret"]
           ELSE IF r.start >= in.total THEN [r EXCEPT !.at = "ret"]
           ELSE [r EXCEPT !.at = "loop", !.epoch = r.start]
      [] r.at = "loop" ->
           [r EXCEPT !.at = "save", !.units = Append(@, r.epoch)]
      [] r.at = "save" ->
           IF r.epoch + 1 < in.total
           THEN [r EXCEPT !.writes = @ \o TrSaves(r.epoch, in.interval),
                          !.epoch = @ + 1, !.at = "loop"]
           ELSE [r EXCEPT !.writes = @ \o TrSaves(r.epoch, in.interval),
                          !.at = "ret"]
      [] OTHER -> r

\* The two runners are given the same checkpoint directory, configuration
\* and data, each in a directory of its own.
InitEquiv ==
    /\ qpc = "function"
    /\ qIn \in EquivInputs
    /\ qA = [IdleRunner EXCEPT !.at = "entry"]
    /\ qB = [IdleRunner EXCEPT !.at = "entry"]
    /\ CoreIdle /\ GateOff /\ TrainOff /\ SearchOff /\ RenderOff /\ ReuseOff

RunFunction ==
    /\ qpc = "function"
    /\ qA' = FnStep(qA, qIn)
    /\ qpc' = IF qA'.at = "ret" THEN "class" ELSE "function"
    /\ UNCHANGED <<qIn, qB, earlierVars, renderVars, reuseVars>>

RunTrainer ==
    /\ qpc = "class"
    /\ qB' = TrStep(qB, qIn)
    /\ qpc' = IF qB'.at = "ret" THEN "done" ELSE "class"
    /\ UNCHANGED <<qIn, qA, earlierVars, renderVars, reuseVars>>

NextEquiv == RunFunction \/ RunTrainer

SpecEquiv == InitEquiv /\ [][NextEquiv]_vars

\* C40: on the same checkpoint, NUM_EPOCHS, SAVE_INTERVAL and data, the two
\* runners execute the same units in the same order and write the same
\* checkpoints to the same paths in the same order.
C40_RunnersEquivalent ==
    qpc = "done" => qA.units = qB.units /\ qA.writes = qB.writes

C40_Witness ==
    /\ qpc = "done" /\ qIn.ck >= 0 /\ qIn.interval > 1
    /\ Len(qB.units) > 1 /\ Len(qB.units) % qIn.interval # 0
    /\ \E i \in 1..Len(qB.writes) : qB.writes[i].n > 0

----------------------------------------------------------------------------
(* main.py: phase4_render, called by run after run (SpecRender)            *)

RenderPhase == "phase4_render"

\* Lines 176-183: the pairs in the order of the two loops, page after page and
\* for each page monitor after monitor.
PairAt(i) == <<((i - 1) \div NumMonitors) + 1, ((i - 1) % NumMonitors) + 1>>

ActivePairs == {p \in RenderPairs : p[1] <= rHtml}

\* Lines 186-188: both images are there with more than 100 bytes.
BothExist(p) == rDisk[p] = "both"

\* The state a run hands to phase4_render: the phases before it are marked.
RenderStates == {EmptyState, FullState({PHASES[i] : i \in 1..4})}

InitRender ==
    /\ rpc = "call"
    /\ rHtml \in 0..MaxPages
    /\ rDisk \in [RenderPairs -> {"none", "both"}]
    /\ \A p \in RenderPairs : p[1] > rHtml => rDisk[p] = "none"
    /\ rIdx = 1 /\ rPaths = 0 /\ rRendered = {} /\ rFailed = {}
    /\ rSimFailed = FALSE /\ rCall = 1 /\ rRetried = {} /\ rRecorded = -1
    /\ mem \in RenderStates
    /\ file = (IF mem = EmptyState THEN AbsentFile ELSE ObjectFile(mem))
    /\ pc = "ready"
    /\ PipelineIdle /\ GateOff /\ TrainOff /\ SearchOff /\ EquivOff /\ ReuseOff

renderRest == <<driverVars, histVars, crawlerVars, gateVars, trainVars,
                searchVars, equivVars, reuseVars, pc>>

\* Lines 151-154: the phase is marked already, the function returns.
RenderCall ==
    /\ rpc = "call"
    /\ rpc' = IF IsCompleted(mem, RenderPhase) THEN "returned" ELSE "list"
    /\ UNCHANGED <<file, mem, rHtml, rDisk, rIdx, rPaths, rRendered, rFailed,
                   rSimFailed, rCall, rRetried, rRecorded, renderRest>>

\* Lines 162-171: without HTML files the phase is marked with {"count": 0}.
RenderList ==
    /\ rpc = "list"
    /\ IF rHtml = 0
       THEN LET r == MarkCompleted(mem, RenderPhase, "result")
            IN  /\ mem' = r.st /\ file' = r.file
                /\ rpc' = IF r.raises THEN "raised" ELSE "returned"
       ELSE /\ rpc' = "sim"
            /\ UNCHANGED <<file, mem>>
    /\ UNCHANGED <<rHtml, rDisk, rIdx, rPaths, rRendered, rFailed, rSimFailed,
                   rCall, rRetried, rRecorded, renderRest>>

\* Lines 205-206: the except of the outer try prints the failure and the
\* function goes on to line 208.
AfterSimFailure == "mark"

\* Lines 173-174: MonitorSimulator() starts a browser, or raises.
RenderSim ==
    /\ rpc = "sim"
    /\ \E ok \in BOOLEAN :
         /\ rpc' = IF ok THEN "loop" ELSE AfterSimFailure
         /\ rSimFailed' = ~ok
    /\ UNCHANGED <<file, mem, rHtml, rDisk, rIdx, rPaths, rRendered, rFailed,
                   rCall, rRetried, rRecorded, renderRest>>

\* What a render of a pair can do: both images saved ("ok"), an exception
\* before the first save ("raise"), an exception between the two saves
\* ("half").
RenderOutcomes == {"ok", "raise", "half"}

\* Lines 176-202: one pair.  A pair whose two images exist is counted and not
\* rendered; otherwise sim.render and the two saves, an exception of which is
\* printed and the loop goes on.
RenderPair ==
    /\ rpc = "loop"
    /\ LET p == PairAt(rIdx)
       IN  IF BothExist(p)
           THEN /\ rPaths' = rPaths + 1
                /\ UNCHANGED <<rDisk, rRendered, rFailed, rRetried>>
           ELSE \E o \in RenderOutcomes :
                  /\ rRetried' = IF p \in rFailed THEN rRetried \cup {p}
                                 ELSE rRetried
                  /\ IF o = "ok"
                     THEN /\ rDisk' = [rDisk EXCEPT ![p] = "both"]
                          /\ rPaths' = rPaths + 1
                          /\ rRendered' = rRendered \cup {p}
                          /\ UNCHANGED rFailed
                     ELSE /\ rDisk' = [rDisk EXCEPT ![p] =
                                          IF o = "half" THEN "icc" ELSE @]
                          /\ rFailed' = rFailed \cup {p}
                          /\ UNCHANGED <<rPaths, rRendered>>
    /\ rIdx' = rIdx + 1
    /\ rpc' = IF rIdx = rHtml * NumMonitors THEN "close" ELSE "loop"
    /\ UNCHANGED <<file, mem, rHtml, rSimFailed, rCall, rRecorded, renderRest>>

\* Line 204: sim.close(); an exception of it is caught at line 205.
RenderClose ==
    /\ rpc = "close"
    /\ rpc' = "mark"
    /\ UNCHANGED <<file, mem, rHtml, rDisk, rIdx, rPaths, rRendered, rFailed,
                   rSimFailed, rCall, rRetried, rRecorded, renderRest>>

\* Lines 208-212: the phase is marked with the two counts.
RenderMark ==
    /\ rpc = "mark"
    /\ LET r == MarkCompleted(mem, RenderPhase, "result")
       IN  /\ mem' = r.st /\ file' = r.file
           /\ rpc' = IF r.raises THEN "raised" ELSE "returned"
           /\ rRecorded' = IF r.raises THEN rRecorded ELSE rPaths
    /\ UNCHANGED <<rHtml, rDisk, rIdx, rPaths, rRendered, rFailed, rSimFailed,
                   rCall, rRetried, renderRest>>

\* The pipeline is run again without reset_state: load_state, and main calls
\* phase4_render with what it read.
RenderAgain ==
    /\ rpc = "returned" /\ rCall < MaxCalls
    /\ ~LoadState(file).raises
    /\ mem' = LoadState(file).st
    /\ rpc' = "call" /\ rCall' = rCall + 1
    /\ rIdx' = 1 /\ rPaths' = 0 /\ rRendered' = {}
    /\ UNCHANGED <<file, rHtml, rDisk, rFailed, rSimFailed, rRetried, rRecorded,
                   renderRest>>

NextRender ==
    \/ RenderCall \/ RenderList \/ RenderSim \/ RenderPair \/ RenderClose
    \/ RenderMark \/ RenderAgain

SpecRender == InitRender /\ [][NextRender]_vars

ImagesThere == {p \in ActivePairs : BothExist(p)}

\* C38: phase4_render never raises; when it returns the phase is marked in the
\* state and in the state file; the icc_count it recorded is the number of
\* pairs it rendered or that were there already; a later run renders nothing
\* again.
C38_RenderNeverHalts ==
    /\ rpc # "raised"
    /\ rpc = "returned" => IsCompleted(mem, RenderPhase) /\ file = SaveState(mem)
    /\ rRecorded >= 0 => rRecorded = Cardinality(ImagesThere)
    /\ rRetried = {}

\* The same with the count as the code takes it: the pairs the loop went
\* through and found or rendered, none when the simulator did not start.
C38_CountOfTheLoop ==
    /\ rpc # "raised"
    /\ rpc = "returned" => IsCompleted(mem, RenderPhase) /\ file = SaveState(mem)
    /\ rRecorded >= 0 =>
          rRecorded = (IF rSimFailed THEN 0
                       ELSE Cardinality(ImagesThere))
    /\ rRetried = {}

----------------------------------------------------------------------------
(* run_crawler run after run over the same directory: the files it skips   *)
(* and the URL mapping (SpecReuse)                                         *)

ReuseUrls == 1..NumUrls

\* What _get_target_urls can return: up to MaxKeys URLs, no URL twice (lines
\* 429-432).
SearchLists ==
    {q \in UNION {[1..n -> ReuseUrls] : n \in 0..MaxKeys} :
        \A i, j \in 1..Len(q) : i # j => q[i] # q[j]}

\* Line 595: os.path.exists(output_path) and os.path.getsize(output_path) > 100
Exists(k) == uDisk[k].st = "good"

\* What a process leaves at its output path before it ends or is killed:
\* nothing, a file of at most 100 bytes, a larger one.
Written == {"nothing", "short", "good"}

\* The output path after a process started for url that exited with code rc
\* (-1: killed) and wrote w.
FileAfter(old, w, url, rc) ==
    IF w = "nothing" THEN old ELSE [st |-> w, url |-> url, ok |-> rc = 0]

InitReuse ==
    /\ upc = "collect" /\ uRun = 1 /\ uPosix \in BOOLEAN
    /\ uUrls \in SearchLists /\ uPrev = <<>> /\ uSame = TRUE
    /\ uIdx = 1 /\ uAttempt = 1 /\ uTasks = <<>>
    /\ uMap = [k \in ReuseKeys |-> 0] /\ uMapFile = [k \in ReuseKeys |-> 0]
    /\ uDisk = [k \in ReuseKeys |-> NoFile]
    /\ uSkipped = {} /\ uOk = {} /\ uWrote = {}
    /\ CoreIdle /\ GateOff /\ TrainOff /\ SearchOff /\ EquivOff /\ RenderOff

nonReuseVars == <<earlierVars, equivVars, renderVars>>

\* Lines 589-601: one URL of the search result.  A file that exists with more
\* than 100 bytes is skipped: its key is mapped to this URL and counted as a
\* success; otherwise the URL becomes a task.
ReuseCollect ==
    /\ upc = "collect" /\ uIdx <= Len(uUrls)
    /\ IF Exists(uIdx)
       THEN /\ uMap' = [uMap EXCEPT ![uIdx] = uUrls[uIdx]]
            /\ uSkipped' = uSkipped \cup {uIdx}
            /\ uWrote' = uWrote \cup {uIdx}
            /\ UNCHANGED uTasks
       ELSE /\ uTasks' = Append(uTasks, uIdx)
            /\ UNCHANGED <<uMap, uSkipped, uWrote>>
    /\ uIdx' = uIdx + 1
    /\ UNCHANGED <<upc, uRun, uPosix, uUrls, uPrev, uSame, uAttempt, uMapFile,
                   uDisk, uOk, nonReuseVars>>

\* Lines 603-612: the collection is over.  Without tasks the mapping is saved
\* and run_crawler returns; otherwise the downloads begin.
ReuseCollected ==
    /\ upc = "collect" /\ uIdx > Len(uUrls)
    /\ IF uTasks = <<>>
       THEN upc' = "returned" /\ uMapFile' = uMap
       ELSE upc' = "pool" /\ UNCHANGED uMapFile
    /\ uIdx' = 1 /\ uAttempt' = 1
    /\ UNCHANGED <<uRun, uPosix, uUrls, uPrev, uSame, uTasks, uMap, uDisk,
                   uSkipped, uOk, uWrote, nonReuseVars>>

\* Lines 505-509 and 632-636: the attempt failed; the next attempt, or
\* download_page returns False and the next task is taken.
AfterAttempt ==
    IF uAttempt < MAX_RETRIES
    THEN uAttempt' = uAttempt + 1 /\ UNCHANGED uIdx
    ELSE uAttempt' = 1 /\ uIdx' = uIdx + 1

\* Lines 472-495 and 632-634: the process of an attempt ends in time.  With
\* code 0 and a file of more than 100 bytes at the path download_page returns
\* True and the key is mapped to the URL of the task.
ReuseExit ==
    /\ upc = "pool" /\ uIdx <= Len(uTasks)
    /\ \E rc \in ExitCodes, w \in Written :
         LET k == uTasks[uIdx]
             f == FileAfter(uDisk[k], w, uUrls[k], rc)
         IN  /\ uDisk' = [uDisk EXCEPT ![k] = f]
             /\ IF rc = 0 /\ f.st = "good"
                THEN /\ uMap' = [uMap EXCEPT ![k] = uUrls[k]]
                     /\ uOk' = uOk \cup {k}
                     /\ uWrote' = uWrote \cup {k}
                     /\ uAttempt' = 1 /\ uIdx' = uIdx + 1
                ELSE /\ AfterAttempt
                     /\ UNCHANGED <<uMap, uOk, uWrote>>
    /\ UNCHANGED <<upc, uRun, uPosix, uUrls, uPrev, uSame, uTasks, uMapFile,
                   uSkipped, nonReuseVars>>

\* Lines 480-487 and 511-530: the process is killed after DOWNLOAD_TIMEOUT,
\* with what it had written by then.  On Linux and macOS the kill takes the
\* crawler with it.
ReuseTimeout ==
    /\ upc = "pool" /\ uIdx <= Len(uTasks)
    /\ \E w \in Written :
         LET k == uTasks[uIdx]
         IN  uDisk' = [uDisk EXCEPT ![k] = FileAfter(@, w, uUrls[k], -1)]
    /\ IF uPosix
       THEN upc' = "killed" /\ UNCHANGED <<uIdx, uAttempt>>
       ELSE AfterAttempt /\ UNCHANGED upc
    /\ UNCHANGED <<uRun, uPosix, uUrls, uPrev, uSame, uTasks, uMap, uMapFile,
                   uSkipped, uOk, uWrote, nonReuseVars>>

\* Line 640: every future is done, the mapping is saved, run_crawler returns.
ReuseFinish ==
    /\ upc = "pool" /\ uIdx > Len(uTasks)
    /\ upc' = "returned" /\ uMapFile' = uMap
    /\ UNCHANGED <<uRun, uPosix, uUrls, uPrev, uSame, uIdx, uAttempt, uTasks,
                   uMap, uDisk, uSkipped, uOk, uWrote, nonReuseVars>>

\* The pipeline is started again (phase0_crawl was not marked, or the state
\* was reset): _load_url_mapping, and the searches of the new run.
ReuseAgain ==
    /\ upc \in {"returned", "killed"} /\ uRun < MaxRuns
    /\ \E q \in SearchLists :
         /\ uUrls' = q /\ uPrev' = uUrls
         /\ uSame' = (uSame /\ q = uUrls)
    /\ upc' = "collect" /\ uRun' = uRun + 1
    /\ uMap' = uMapFile
    /\ uIdx' = 1 /\ uAttempt' = 1 /\ uTasks' = <<>>
    /\ uSkipped' = {} /\ uOk' = {} /\ uWrote' = {}
    /\ UNCHANGED <<uPosix, uMapFile, uDisk, nonReuseVars>>

NextReuse ==
    \/ ReuseCollect \/ ReuseCollected \/ ReuseExit \/ ReuseTimeout
    \/ ReuseFinish \/ ReuseAgain

SpecReuse == InitReuse /\ [][NextReuse]_vars

\* C36: a file run_crawler counts as a success, because it skips it as
\* already downloaded or because download_page returned True, was written by a
\* process that exited with code 0; what a killed or failed process left is
\* never counted.
C36_OnlySuccessfulOutputReused ==
    \A k \in uSkipped \cup uOk : uDisk[k].ok

\* What the code tests before it skips: the size of the file.
C36_SizeOnly ==
    \A k \in uSkipped \cup uOk : uDisk[k].st = "good"

\* C37: when run_crawler has returned, every key it wrote into the mapping is
\* mapped to the URL its file was downloaded from.
C37_MappingFidelity ==
    upc = "returned" =>
        \A k \in uWrote : uMapFile[k] = uDisk[k].url

\* The same while the searches of every run return the same URLs in the same
\* order.
C37_SameSearch ==
    upc = "returned" /\ uSame =>
        \A k \in uWrote : uMapFile[k] = uDisk[k].url

====
